---- MODULE Spec2Model ----
(***************************************************************************)
(* Treasury manager (contracts/treasury_manager): asset and allocation     *)
(* registry, holding ledger, deposit intake, rebalance (update), unbond    *)
(* and claim.  Amounts are Uint128 in the source; here they are small      *)
(* naturals.  Shares and tolerances are fixed-point ratios whose           *)
(* denominator 10^18 is counted in units of 10^18 / 4, so that             *)
(* ONE_HUNDRED_PERCENT is 4 and multiply_ratio(x, 10^18) is x \div 4       *)
(* applied to a share expressed in quarters.                               *)
(***************************************************************************)
EXTENDS Integers, Sequences, FiniteSets, TLC

VARIABLES CONFIG, ASSET_LIST, ASSETS, ALLOCATIONS, HOLDERS, HOLDING,
          liquid, allowance, adapters, resp

storage == <<CONFIG, ASSET_LIST, ASSETS, ALLOCATIONS, HOLDERS, HOLDING>>
chain == <<liquid, allowance, adapters>>
vars == <<CONFIG, ASSET_LIST, ASSETS, ALLOCATIONS, HOLDERS, HOLDING,
          liquid, allowance, adapters, resp>>

(***************************************************************************)
(* Bounds of the exploration.                                              *)
(***************************************************************************)
MaxAmount == 1
MaxSupply == 2
MaxAllowance == 1
MaxAssetList == 2
MaxTarget == 3

(***************************************************************************)
(* Program constants.                                                      *)
(***************************************************************************)
ONE_HUNDRED_PERCENT == 4

(***************************************************************************)
(* Addresses.                                                              *)
(***************************************************************************)
Asset == {"X", "Y"}
Adapter == {"ad1", "ad2"}
Addr == {"treasury", "h1", "admin", "ad1", "ad2"}
AdminAuth == {"auth1", "auth2"}

EmptyMap == [k \in {} |-> 0]

(***************************************************************************)
(* Admin authorization contract (contracts/admin): the super admin holds   *)
(* every permission, a registered user holds the permissions listed for    *)
(* it, anyone else is refused.                                             *)
(***************************************************************************)
SUPER(admin_auth) == IF admin_auth = "auth1" THEN "admin" ELSE "h1"

PERMISSIONS(admin_auth) ==
    IF admin_auth = "auth1"
    THEN ("h1" :> {"SOME_OTHER_PERMISSION"})
    ELSE ("admin" :> {"TREASURY_MANAGER"})

query_validate_permission(admin_auth, permission, user) ==
    IF user = SUPER(admin_auth) THEN "ok"
    ELSE IF user \in DOMAIN PERMISSIONS(admin_auth)
         THEN IF permission \in PERMISSIONS(admin_auth)[user]
              THEN "ok"
              ELSE "UnauthorizedAdmin"
         ELSE "UnregisteredAdmin"

validate_admin(user, admin_auth) ==
    query_validate_permission(admin_auth, "TREASURY_MANAGER", user)

(***************************************************************************)
(* Responses.                                                              *)
(***************************************************************************)
Err(msg) == [answer |-> "Err", status |-> msg, amount |-> 0, messages |-> <<>>]

Answer(name, amount, messages) ==
    [answer |-> name, status |-> "Success", amount |-> amount,
     messages |-> messages]

IsErr(response) == response.answer = "Err"

(***************************************************************************)
(* Vec<Balance> helpers: position of a token's entry (0 when absent), the  *)
(* amount found (zero when absent), and the add-or-push update.            *)
(***************************************************************************)
TokenPos_First(bals, token) == IF bals = <<>> THEN 0 ELSE 1

TokenPos(bals, token) ==
    IF \E i \in 1..Len(bals) : bals[i].token = token
    THEN CHOOSE i \in 1..Len(bals) :
            /\ bals[i].token = token
            /\ \A j \in 1..(i - 1) : bals[j].token # token
    ELSE 0

AmountOf(bals, token) ==
    IF TokenPos(bals, token) = 0 THEN 0 ELSE bals[TokenPos(bals, token)].amount

AddOrPush(bals, token, amount) ==
    IF TokenPos(bals, token) # 0
    THEN [bals EXCEPT ![TokenPos(bals, token)].amount = @ + amount]
    ELSE Append(bals, [token |-> token, amount |-> amount])

Contains(list, x) == \E i \in 1..Len(list) : list[i] = x

NewHolding == [balances |-> <<>>, unbondings |-> <<>>, status |-> "Active"]

(***************************************************************************)
(* State after instantiate: the treasury is the first holder.              *)
(***************************************************************************)
Init ==
    /\ CONFIG = [admin_auth |-> "auth1", treasury |-> "treasury"]
    /\ ASSET_LIST = <<>>
    /\ ASSETS = EmptyMap
    /\ ALLOCATIONS = EmptyMap
    /\ HOLDERS = <<"treasury">>
    /\ HOLDING = ("treasury" :> NewHolding)
    /\ liquid = [a \in Asset |-> 0]
    /\ allowance = [a \in Asset |-> 0]
    /\ adapters = [a \in Asset |-> [d \in Adapter |->
                       [bonded |-> 0, claimable |-> 0]]]
    /\ resp = Answer("Init", 0, <<>>)

(***************************************************************************)
(* Queued messages.  They run in order once the handler has returned; a    *)
(* failing message aborts the whole transaction.  The token moves funds    *)
(* out of the manager's balance (send), or out of the treasury's allowance *)
(* (send_from); an adapter turns bonded funds into claimable ones on       *)
(* unbond and pays its claimable funds back on claim.                      *)
(***************************************************************************)
SendMsg(recipient, amount, token) ==
    [kind |-> "send", token |-> token, recipient |-> recipient,
     amount |-> amount]

BatchSendMsg(actions, token) ==
    [kind |-> "batch_send", token |-> token, actions |-> actions]

BatchSendFromMsg(actions, token) ==
    [kind |-> "batch_send_from", token |-> token, actions |-> actions]

SendAction(recipient, amount) == [recipient |-> recipient, amount |-> amount]

SendFromAction(owner, recipient, amount) ==
    [owner |-> owner, recipient |-> recipient, amount |-> amount]

UnbondMsg(asset, amount, adapter) ==
    [kind |-> "unbond", token |-> asset, adapter |-> adapter,
     amount |-> amount]

ClaimMsg(asset, adapter) ==
    [kind |-> "claim", token |-> asset, adapter |-> adapter]

RegisterReceiveMsg(token) == [kind |-> "register_receive", token |-> token]

SetViewingKeyMsg(token) == [kind |-> "set_viewing_key", token |-> token]

Chain == [ok |-> TRUE, liquid |-> liquid, allowance |-> allowance,
          adapters |-> adapters]

Deliver(env, token, recipient, amount) ==
    IF recipient \in Adapter
    THEN [env EXCEPT !.adapters[token][recipient].bonded = @ + amount]
    ELSE env

RECURSIVE ExecSend(_, _, _)
ExecSend(env, token, actions) ==
    IF actions = <<>> \/ ~env.ok THEN env
    ELSE LET a == Head(actions) IN
         IF a.amount > env.liquid[token]
         THEN [env EXCEPT !.ok = FALSE]
         ELSE ExecSend(
                Deliver([env EXCEPT !.liquid[token] = @ - a.amount],
                        token, a.recipient, a.amount),
                token, Tail(actions))

RECURSIVE ExecSendFrom(_, _, _)
ExecSendFrom(env, token, actions) ==
    IF actions = <<>> \/ ~env.ok THEN env
    ELSE LET a == Head(actions) IN
         IF a.amount > (IF a.owner = "treasury" THEN env.allowance[token]
                        ELSE 0)
         THEN [env EXCEPT !.ok = FALSE]
         ELSE ExecSendFrom(
                Deliver([env EXCEPT !.allowance[token] = @ - a.amount],
                        token, a.recipient, a.amount),
                token, Tail(actions))

ExecMsg(env, m) ==
    CASE m.kind = "send" ->
           ExecSend(env, m.token,
                    <<SendAction(m.recipient, m.amount)>>)
      [] m.kind = "batch_send" -> ExecSend(env, m.token, m.actions)
      [] m.kind = "batch_send_from" -> ExecSendFrom(env, m.token, m.actions)
      [] m.kind = "unbond" ->
           IF m.amount > env.adapters[m.token][m.adapter].bonded
           THEN [env EXCEPT !.ok = FALSE]
           ELSE [env EXCEPT
                   !.adapters[m.token][m.adapter].bonded = @ - m.amount,
                   !.adapters[m.token][m.adapter].claimable = @ + m.amount]
      [] m.kind = "claim" ->
           [env EXCEPT
              !.liquid[m.token] =
                  @ + env.adapters[m.token][m.adapter].claimable,
              !.adapters[m.token][m.adapter].claimable = 0]
      [] OTHER -> env

RECURSIVE Exec(_, _)
Exec(env, msgs) ==
    IF msgs = <<>> \/ ~env.ok THEN env
    ELSE Exec(ExecMsg(env, Head(msgs)), Tail(msgs))

(***************************************************************************)
(* The storage as one value.  A handler is a function of the current state *)
(* and of its inputs; it returns its response together with the storage it *)
(* has written (Ok), or an error (Fail).  A transaction commits the        *)
(* handler's writes and the effects of its messages together, or, when the *)
(* handler or one of its messages fails, nothing at all.                   *)
(***************************************************************************)
Store == [CONFIG |-> CONFIG, ASSET_LIST |-> ASSET_LIST, ASSETS |-> ASSETS,
          ALLOCATIONS |-> ALLOCATIONS, HOLDERS |-> HOLDERS,
          HOLDING |-> HOLDING]

Ok(st, response) == [st |-> st, resp |-> response]

Fail(msg) == [st |-> Store, resp |-> Err(msg)]

Outcome(result, env) ==
    LET after == Exec(env, result.resp.messages) IN
    IF IsErr(result.resp) THEN [committed |-> FALSE, st |-> Store,
                                chain |-> Chain, resp |-> result.resp]
    ELSE IF ~after.ok THEN [committed |-> FALSE, st |-> Store,
                            chain |-> Chain,
                            resp |-> Err("submessage failed")]
    ELSE [committed |-> TRUE, st |-> result.st, chain |-> after,
          resp |-> result.resp]

Transaction(result, env) ==
    \E r \in {result} : \E out \in {Outcome(r, env)} :
    IF out.committed
    THEN /\ CONFIG' = out.st.CONFIG
         /\ ASSET_LIST' = out.st.ASSET_LIST
         /\ ASSETS' = out.st.ASSETS
         /\ ALLOCATIONS' = out.st.ALLOCATIONS
         /\ HOLDERS' = out.st.HOLDERS
         /\ HOLDING' = out.st.HOLDING
         /\ liquid' = out.chain.liquid
         /\ allowance' = out.chain.allowance
         /\ adapters' = out.chain.adapters
         /\ resp' = out.resp
    ELSE UNCHANGED vars

(***************************************************************************)
(* External queries.                                                       *)
(***************************************************************************)
balance_query(token) == liquid[token]

allowance_query(owner, token) ==
    IF owner = "treasury" THEN allowance[token] ELSE 0

adapter_balance_query(asset, adapter) ==
    adapters[asset][adapter].bonded + adapters[asset][adapter].claimable

adapter_claimable_query(asset, adapter) == adapters[asset][adapter].claimable

adapter_unbondable_query(asset, adapter) == adapters[asset][adapter].bonded

TotalFunds(asset) ==
    liquid[asset] + adapter_balance_query(asset, "ad1")
                  + adapter_balance_query(asset, "ad2")

(***************************************************************************)
(* receive: a deposit of `amount' of token info_sender sent by `from'.     *)
(* The token has moved the funds, out of the wallet of `from', before it   *)
(* calls the handler (Paid); a failing handler undoes the transfer.       *)
(***************************************************************************)
receive_HolderFirst(info_sender, from, amount) ==
    IF info_sender \notin DOMAIN ASSETS THEN Fail("ASSETS not found")
    ELSE IF info_sender \notin DOMAIN ALLOCATIONS
    THEN Fail("ALLOCATIONS not found")
    ELSE IF ~Contains(HOLDERS, from)
            /\ \E i \in 1..Len(ALLOCATIONS[info_sender]) :
                  ALLOCATIONS[info_sender][i].contract.address = from
    THEN Ok(Store, Answer("Receive", 0, <<>>))
    ELSE LET holder == IF Contains(HOLDERS, from) THEN from
                       ELSE CONFIG.treasury
         IN
         IF holder \notin DOMAIN HOLDING THEN Fail("panic: unwrap on None")
         ELSE Ok([Store EXCEPT !.HOLDING[holder].balances =
                    AddOrPush(@, ASSETS[info_sender].contract.address,
                              amount)],
                 Answer("Receive", 0, <<>>))

receive(info_sender, from, amount) ==
    IF info_sender \notin DOMAIN ASSETS THEN Fail("ASSETS not found")
    ELSE IF info_sender \notin DOMAIN ALLOCATIONS
    THEN Fail("ALLOCATIONS not found")
    ELSE IF \E i \in 1..Len(ALLOCATIONS[info_sender]) :
               ALLOCATIONS[info_sender][i].contract.address = from
    THEN Ok(Store, Answer("Receive", 0, <<>>))
    ELSE LET holder == IF Contains(HOLDERS, from) THEN from
                       ELSE CONFIG.treasury
         IN
         IF holder \notin DOMAIN HOLDING THEN Fail("panic: unwrap on None")
         ELSE Ok([Store EXCEPT !.HOLDING[holder].balances =
                    AddOrPush(@, ASSETS[info_sender].contract.address,
                              amount)],
                 Answer("Receive", 0, <<>>))

Paid(token, amount) == [Chain EXCEPT !.liquid[token] = @ + amount]

Receive(token, from, amount) ==
    Transaction(receive(token, from, amount), Paid(token, amount))

(***************************************************************************)
(* try_update_config                                                       *)
(***************************************************************************)
try_update_config(info_sender, config) ==
    IF validate_admin(info_sender, CONFIG.admin_auth) # "ok"
    THEN Fail(validate_admin(info_sender, CONFIG.admin_auth))
    ELSE Ok([Store EXCEPT !.CONFIG = config],
            Answer("UpdateConfig", 0, <<>>))

UpdateConfig(info_sender, config) ==
    Transaction(try_update_config(info_sender, config), Chain)

(***************************************************************************)
(* try_register_asset                                                      *)
(***************************************************************************)
try_register_asset(info_sender, contract) ==
    IF validate_admin(info_sender, CONFIG.admin_auth) # "ok"
    THEN Fail(validate_admin(info_sender, CONFIG.admin_auth))
    ELSE Ok([Store EXCEPT
               !.ASSET_LIST = Append(@, contract.address),
               !.ASSETS = (contract.address :> [contract |-> contract]) @@ @,
               !.ALLOCATIONS = (contract.address :> <<>>) @@ @],
            Answer("RegisterAsset", 0,
                   <<RegisterReceiveMsg(contract.address),
                     SetViewingKeyMsg(contract.address)>>))

RegisterAsset(info_sender, contract) ==
    Transaction(try_register_asset(info_sender, contract), Chain)

(***************************************************************************)
(* allocate                                                                *)
(***************************************************************************)
RECURSIVE PortionSum_SkipLast(_)
PortionSum_SkipLast(apps) ==
    IF Len(apps) <= 1 THEN 0
    ELSE (IF Head(apps).alloc_type = "Portion" THEN Head(apps).amount ELSE 0)
         + PortionSum_SkipLast(Tail(apps))

RECURSIVE PortionSum(_)
PortionSum(apps) ==
    IF apps = <<>> THEN 0
    ELSE (IF Head(apps).alloc_type = "Portion" THEN Head(apps).amount ELSE 0)
         + PortionSum(Tail(apps))

AllocPos_WholeContract(apps, contract) ==
    IF \E i \in 1..Len(apps) : apps[i].contract = contract
    THEN CHOOSE i \in 1..Len(apps) :
            /\ apps[i].contract = contract
            /\ \A j \in 1..(i - 1) : apps[j].contract # contract
    ELSE 0

AllocPos(apps, contract) ==
    IF \E i \in 1..Len(apps) :
          apps[i].contract.address = contract.address
    THEN CHOOSE i \in 1..Len(apps) :
            /\ apps[i].contract.address = contract.address
            /\ \A j \in 1..(i - 1) :
                  apps[j].contract.address # contract.address
    ELSE 0

RemoveAt(seq, i) == SubSeq(seq, 1, i - 1) \o SubSeq(seq, i + 1, Len(seq))

AllocationMeta(allocation) ==
    [nick |-> allocation.nick, contract |-> allocation.contract,
     amount |-> allocation.amount, alloc_type |-> allocation.alloc_type,
     balance |-> 0, tolerance |-> allocation.tolerance]

UpdatedApps(asset, allocation) ==
    LET apps == IF asset \in DOMAIN ALLOCATIONS THEN ALLOCATIONS[asset]
                ELSE <<>>
        stale_alloc == AllocPos(apps, allocation.contract)
        kept == IF stale_alloc # 0 THEN RemoveAt(apps, stale_alloc) ELSE apps
    IN Append(kept, AllocationMeta(allocation))

allocate_CheckBeforePush(info_sender, asset, allocation) ==
    IF validate_admin(info_sender, CONFIG.admin_auth) # "ok"
    THEN Fail(validate_admin(info_sender, CONFIG.admin_auth))
    ELSE LET apps == UpdatedApps(asset, allocation) IN
         IF PortionSum(SubSeq(apps, 1, Len(apps) - 1)) > ONE_HUNDRED_PERCENT
         THEN Fail("Invalid allocation total exceeding 100%")
         ELSE Ok([Store EXCEPT !.ALLOCATIONS = (asset :> apps) @@ @],
                 Answer("Allocate", 0, <<>>))

allocate(info_sender, asset, allocation) ==
    IF validate_admin(info_sender, CONFIG.admin_auth) # "ok"
    THEN Fail(validate_admin(info_sender, CONFIG.admin_auth))
    ELSE LET apps == UpdatedApps(asset, allocation) IN
         IF PortionSum(apps) > ONE_HUNDRED_PERCENT
         THEN Fail("Invalid allocation total exceeding 100%")
         ELSE Ok([Store EXCEPT !.ALLOCATIONS = (asset :> apps) @@ @],
                 Answer("Allocate", 0, <<>>))

Allocate(info_sender, asset, allocation) ==
    Transaction(allocate(info_sender, asset, allocation), Chain)

(***************************************************************************)
(* add_holder, remove_holder                                               *)
(***************************************************************************)
add_holder_Reopen(info_sender, holder) ==
    IF validate_admin(info_sender, CONFIG.admin_auth) # "ok"
    THEN Fail(validate_admin(info_sender, CONFIG.admin_auth))
    ELSE IF Contains(HOLDERS, holder) /\ HOLDING[holder].status = "Active"
    THEN Fail("Holding already exists")
    ELSE Ok([Store EXCEPT
               !.HOLDERS = IF Contains(@, holder) THEN @
                           ELSE Append(@, holder),
               !.HOLDING = (holder :> NewHolding) @@ @],
            Answer("AddHolder", 0, <<>>))

add_holder(info_sender, holder) ==
    IF validate_admin(info_sender, CONFIG.admin_auth) # "ok"
    THEN Fail(validate_admin(info_sender, CONFIG.admin_auth))
    ELSE IF Contains(HOLDERS, holder) THEN Fail("Holding already exists")
    ELSE Ok([Store EXCEPT
               !.HOLDERS = Append(@, holder),
               !.HOLDING = (holder :> NewHolding) @@ @],
            Answer("AddHolder", 0, <<>>))

AddHolder(info_sender, holder) ==
    Transaction(add_holder(info_sender, holder), Chain)

remove_holder_ClearsPending(info_sender, holder) ==
    IF validate_admin(info_sender, CONFIG.admin_auth) # "ok"
    THEN Fail(validate_admin(info_sender, CONFIG.admin_auth))
    ELSE IF holder \in DOMAIN HOLDING
    THEN Ok([Store EXCEPT !.HOLDING[holder].status = "Closed",
                          !.HOLDING[holder].unbondings = <<>>],
            Answer("RemoveHolder", 0, <<>>))
    ELSE Fail("Not an authorized holder")

remove_holder_NoAuth(info_sender, holder) ==
    IF holder \in DOMAIN HOLDING
    THEN Ok([Store EXCEPT !.HOLDING[holder].status = "Closed"],
            Answer("RemoveHolder", 0, <<>>))
    ELSE Fail("Not an authorized holder")

remove_holder(info_sender, holder) ==
    IF validate_admin(info_sender, CONFIG.admin_auth) # "ok"
    THEN Fail(validate_admin(info_sender, CONFIG.admin_auth))
    ELSE IF holder \in DOMAIN HOLDING
    THEN Ok([Store EXCEPT !.HOLDING[holder].status = "Closed"],
            Answer("RemoveHolder", 0, <<>>))
    ELSE Fail("Not an authorized holder")

RemoveHolder(info_sender, holder) ==
    Transaction(remove_holder(info_sender, holder), Chain)

(***************************************************************************)
(* claim                                                                   *)
(***************************************************************************)
RECURSIVE ClaimLoop_AskAll(_, _, _)
ClaimLoop_AskAll(asset, allocs, acc) ==
    IF allocs = <<>> THEN acc
    ELSE LET alloc == Head(allocs)
             claim == adapter_claimable_query(asset, alloc.contract.address)
         IN
         IF claim > 0
         THEN ClaimLoop_AskAll(asset, Tail(allocs),
                [messages |->
                     Append(acc.messages,
                            ClaimMsg(asset, alloc.contract.address)),
                 claim_amount |->
                     IF claim > acc.claim_amount THEN 0
                     ELSE acc.claim_amount - claim,
                 total_claimed |-> acc.total_claimed + claim])
         ELSE ClaimLoop_AskAll(asset, Tail(allocs), acc)

RECURSIVE ClaimLoop_NoMessage(_, _, _)
ClaimLoop_NoMessage(asset, allocs, acc) ==
    IF allocs = <<>> \/ acc.claim_amount = 0 THEN acc
    ELSE LET alloc == Head(allocs)
             claim == adapter_claimable_query(asset, alloc.contract.address)
         IN
         IF claim > 0
         THEN ClaimLoop_NoMessage(asset, Tail(allocs),
                [messages |-> acc.messages,
                 claim_amount |->
                     IF claim > acc.claim_amount THEN 0
                     ELSE acc.claim_amount - claim,
                 total_claimed |-> acc.total_claimed + claim])
         ELSE ClaimLoop_NoMessage(asset, Tail(allocs), acc)

RECURSIVE ClaimLoop(_, _, _)
ClaimLoop(asset, allocs, acc) ==
    IF allocs = <<>> \/ acc.claim_amount = 0 THEN acc
    ELSE LET alloc == Head(allocs)
             claim == adapter_claimable_query(asset, alloc.contract.address)
         IN
         IF claim > 0
         THEN ClaimLoop(asset, Tail(allocs),
                [messages |->
                     Append(acc.messages,
                            ClaimMsg(asset, alloc.contract.address)),
                 claim_amount |->
                     IF claim > acc.claim_amount THEN 0
                     ELSE acc.claim_amount - claim,
                 total_claimed |-> acc.total_claimed + claim])
         ELSE ClaimLoop(asset, Tail(allocs), acc)

claim(info_sender, asset) ==
    IF ~Contains(ASSET_LIST, asset) THEN Fail("Unrecognized asset")
    ELSE IF asset \notin DOMAIN ASSETS THEN Fail("ASSETS not found")
    ELSE LET claimer ==
               IF validate_admin(info_sender, CONFIG.admin_auth) = "ok"
               THEN CONFIG.treasury ELSE info_sender
         IN
         IF ~Contains(HOLDERS, claimer) THEN Fail("Unauthorized")
         ELSE IF claimer \notin DOMAIN HOLDING THEN Fail("HOLDING not found")
         ELSE LET holding == HOLDING[claimer]
                  unbonding_i == TokenPos(holding.unbondings, asset)
              IN
              IF unbonding_i = 0 THEN Fail("no unbondings")
              ELSE LET reserves == balance_query(asset)
                       pending == holding.unbondings[unbonding_i].amount
                   IN
                   IF pending > reserves /\ asset \notin DOMAIN ALLOCATIONS
                   THEN Fail("ALLOCATIONS not found")
                   ELSE LET claimed ==
                              IF pending > reserves
                              THEN ClaimLoop(asset, ALLOCATIONS[asset],
                                     [messages |-> <<>>,
                                      claim_amount |-> pending - reserves,
                                      total_claimed |-> 0])
                              ELSE [messages |-> <<>>, claim_amount |-> 0,
                                    total_claimed |-> 0]
                            send_amount ==
                              IF pending > reserves + claimed.total_claimed
                              THEN reserves + claimed.total_claimed
                              ELSE pending
                        IN Ok(
                             [Store EXCEPT
                                !.HOLDING[claimer].unbondings[unbonding_i]
                                    .amount = @ - send_amount],
                             Answer("Claim", reserves + claimed.total_claimed,
                                    Append(claimed.messages,
                                           SendMsg(claimer, send_amount,
                                                   asset))))

Claim(info_sender, asset) == Transaction(claim(info_sender, asset), Chain)

(***************************************************************************)
(* Query claimable: what a claim of the holder would pay, the smaller of   *)
(* the holder's pending amount and of the liquid balance plus what the     *)
(* adapters report as claimable.  A query reads the state only.            *)
(***************************************************************************)
RECURSIVE ClaimableSum(_, _, _)
ClaimableSum(asset, allocs, acc) ==
    IF allocs = <<>> THEN acc
    ELSE ClaimableSum(asset, Tail(allocs),
            acc + adapter_claimable_query(asset,
                                          Head(allocs).contract.address))

claimable_LiquidOnly(asset, holder) ==
    IF asset \notin DOMAIN ASSETS THEN Err("Not an asset")
    ELSE IF asset \notin DOMAIN ALLOCATIONS THEN Err("Not an asset")
    ELSE LET total == balance_query(asset) IN
         IF holder \notin DOMAIN HOLDING THEN Err("Invalid holder")
         ELSE LET unbonding == AmountOf(HOLDING[holder].unbondings, asset)
              IN IF total > unbonding
                 THEN Answer("Claimable", unbonding, <<>>)
                 ELSE Answer("Claimable", total, <<>>)

claimable(asset, holder) ==
    IF asset \notin DOMAIN ASSETS THEN Err("Not an asset")
    ELSE IF asset \notin DOMAIN ALLOCATIONS THEN Err("Not an asset")
    ELSE LET total == ClaimableSum(asset, ALLOCATIONS[asset],
                                   balance_query(asset))
         IN
         IF holder \notin DOMAIN HOLDING THEN Err("Invalid holder")
         ELSE LET unbonding == AmountOf(HOLDING[holder].unbondings, asset)
              IN IF total > unbonding
                 THEN Answer("Claimable", unbonding, <<>>)
                 ELSE Answer("Claimable", total, <<>>)

(***************************************************************************)
(* Helpers shared by update and unbond.                                    *)
(***************************************************************************)
multiply_ratio_Ceil(x, numerator, denominator) ==
    (x * numerator + denominator - 1) \div denominator

multiply_ratio(x, numerator, denominator) == (x * numerator) \div denominator

Refreshed(asset, allocations) ==
    [i \in 1..Len(allocations) |->
        [allocations[i] EXCEPT
           !.balance = adapter_balance_query(asset,
                                             allocations[i].contract.address)]]

RECURSIVE TypeTotal(_, _)
TypeTotal(allocations, alloc_type) ==
    IF allocations = <<>> THEN 0
    ELSE (IF Head(allocations).alloc_type = alloc_type
          THEN Head(allocations).balance ELSE 0)
         + TypeTotal(Tail(allocations), alloc_type)

SumUnbondings_None(holders, asset, except) == 0

RECURSIVE SumUnbondings(_, _, _)
SumUnbondings(holders, asset, except) ==
    IF holders = <<>> THEN 0
    ELSE (IF Head(holders) = except THEN 0
          ELSE AmountOf(HOLDING[Head(holders)].unbondings, asset))
         + SumUnbondings(Tail(holders), asset, except)

SumBalances_None(holders, asset) == 0

RECURSIVE SumBalances(_, _)
SumBalances(holders, asset) ==
    IF holders = <<>> THEN 0
    ELSE AmountOf(HOLDING[Head(holders)].balances, asset)
         + SumBalances(Tail(holders), asset)

IsAmount(a) == a.alloc_type = "Amount"

IsPortion(a) == a.alloc_type = "Portion"

SortByType_None(allocations) == allocations

SortByType(allocations) ==
    SelectSeq(allocations, IsAmount) \o SelectSeq(allocations, IsPortion)

SortByBalance_None(allocations) == allocations

RECURSIVE SortByBalance(_)
SortByBalance(allocations) ==
    IF allocations = <<>> THEN <<>>
    ELSE LET n == Len(allocations)
             s == SortByBalance(SubSeq(allocations, 1, n - 1))
             x == allocations[n]
             k == Cardinality({i \in 1..Len(s) : s[i].balance <= x.balance})
         IN SubSeq(s, 1, k) \o <<x>> \o SubSeq(s, k + 1, Len(s))

(***************************************************************************)
(* update (rebalance)                                                      *)
(***************************************************************************)
desired_amount(adapter, total, amount_sending_out) ==
    IF adapter.alloc_type = "Amount" THEN adapter.amount
    ELSE IF total > amount_sending_out
         THEN multiply_ratio(adapter.amount, total - amount_sending_out,
                             ONE_HUNDRED_PERCENT)
         ELSE 0

UnderFunded(acc, adapter, treasury, desired, threshold) ==
    LET desired_input == desired - adapter.balance
        \* after the balance step
        b == IF desired_input < acc.balance
             THEN [acc EXCEPT
                     !.send_actions =
                         Append(@, SendAction(adapter.contract.address,
                                              desired_input)),
                     !.balance = @ - desired_input,
                     !.balance_used = @ + desired_input]
             ELSE IF acc.balance # 0
             THEN [acc EXCEPT
                     !.send_actions =
                         Append(@, SendAction(adapter.contract.address,
                                              acc.balance)),
                     !.balance = 0,
                     !.balance_used = @ + 0,
                     !.break = TRUE]
             ELSE acc
        input == IF desired_input < acc.balance THEN 0 ELSE desired_input
    IN
    IF desired_input <= threshold THEN acc
    ELSE IF b.break THEN b
    ELSE IF b.allowance # 0
    THEN IF input < b.allowance
         THEN [b EXCEPT
                 !.send_from_actions =
                     Append(@, SendFromAction(treasury,
                                              adapter.contract.address,
                                              input)),
                 !.allowance_used = @ + input,
                 !.allowance = @ - input]
         ELSE [b EXCEPT
                 !.send_from_actions =
                     Append(@, SendFromAction(treasury,
                                              adapter.contract.address,
                                              b.allowance)),
                 !.allowance_used = @ + b.allowance,
                 !.allowance = 0,
                 !.break = TRUE]
    ELSE b

OverFunded_NoThreshold(acc, asset, adapter, desired, threshold) ==
    [acc EXCEPT
       !.messages = Append(@, UnbondMsg(asset, adapter.balance - desired,
                                        adapter.contract.address))]

OverFunded(acc, asset, adapter, desired, threshold) ==
    LET desired_output == adapter.balance - desired IN
    IF desired_output <= threshold THEN acc
    ELSE [acc EXCEPT
            !.messages = Append(@, UnbondMsg(asset, desired_output,
                                             adapter.contract.address))]

RECURSIVE RebalanceLoop(_, _, _, _, _)
RebalanceLoop(asset, allocations, total, treasury, acc) ==
    IF allocations = <<>> \/ acc.break \/ acc.panic THEN acc
    ELSE LET adapter == Head(allocations) IN
         IF adapter.nick = <<>>
         THEN [acc EXCEPT !.panic = TRUE]
         ELSE LET desired ==
                    desired_amount(adapter, total, acc.amount_sending_out)
                  threshold ==
                    multiply_ratio(desired, adapter.tolerance,
                                   ONE_HUNDRED_PERCENT)
                  acc1 == IF adapter.alloc_type = "Amount"
                          THEN [acc EXCEPT
                                  !.amount_sending_out = @ + adapter.amount]
                          ELSE acc
                  acc2 ==
                    IF adapter.balance < desired
                    THEN UnderFunded(acc1, adapter, treasury, desired,
                                     threshold)
                    ELSE IF adapter.balance > desired
                    THEN OverFunded(acc1, asset, adapter, desired, threshold)
                    ELSE acc1
              IN RebalanceLoop(asset, Tail(allocations), total, treasury,
                               acc2)

Plan(asset) ==
    LET allocations == Refreshed(asset, ALLOCATIONS[asset])
        amount_total == TypeTotal(allocations, "Amount")
        portion_total == TypeTotal(allocations, "Portion")
        balance == balance_query(asset)
        holder_unbonding == SumUnbondings(HOLDERS, asset, "nobody")
        out_total == (amount_total + portion_total + balance)
                        - holder_unbonding
        total == out_total + allowance_query(CONFIG.treasury, asset)
    IN RebalanceLoop(asset, SortByType(allocations), total, CONFIG.treasury,
         [balance |-> balance,
          allowance |-> allowance_query(CONFIG.treasury, asset),
          allowance_used |-> 0, balance_used |-> 0,
          amount_sending_out |-> 0,
          send_actions |-> <<>>, send_from_actions |-> <<>>,
          messages |-> <<>>, break |-> FALSE, panic |-> FALSE])

update_Variant(info_sender, asset, credit_allowance, save_balances) ==
    IF asset \notin DOMAIN ASSETS THEN Fail("ASSETS not found")
    ELSE IF asset \notin DOMAIN ALLOCATIONS THEN Fail("ALLOCATIONS not found")
    ELSE IF Len(ALLOCATIONS[asset]) = 0
    THEN Fail("panic: index out of bounds")
    ELSE
    LET allocations == Refreshed(asset, ALLOCATIONS[asset])
        amount_total == TypeTotal(allocations, "Amount")
        portion_total == TypeTotal(allocations, "Portion")
        holder_unbonding == SumUnbondings(HOLDERS, asset, "nobody")
        holder_principal == SumBalances(HOLDERS, asset)
        balance == balance_query(asset)
    IN
    IF amount_total + portion_total + balance < holder_unbonding
    THEN Fail("panic: attempt to subtract with overflow")
    ELSE
    LET out_total == (amount_total + portion_total + balance)
                        - holder_unbonding
        total == out_total + allowance_query(CONFIG.treasury, asset)
        plan == Plan(asset)
        treasury == CONFIG.treasury
    IN
    IF plan.panic THEN Fail("panic: unwrap on None")
    ELSE IF treasury \notin DOMAIN HOLDING THEN Fail("panic: unwrap on None")
    ELSE
    LET credited == AddOrPush(HOLDING[treasury].balances, asset,
                              IF credit_allowance THEN plan.allowance_used
                              ELSE 0)
        i == TokenPos(credited, asset)
        principal == holder_principal + plan.allowance_used
        held == total - plan.allowance
        messages ==
            plan.messages
            \o (IF plan.send_actions # <<>>
                THEN <<BatchSendMsg(plan.send_actions, asset)>> ELSE <<>>)
            \o (IF plan.send_from_actions # <<>>
                THEN <<BatchSendFromMsg(plan.send_from_actions, asset)>>
                ELSE <<>>)
    IN
    IF held < principal /\ credited[i].amount < principal - held
    THEN Fail("panic: attempt to subtract with overflow")
    ELSE Ok([Store EXCEPT
               !.ALLOCATIONS[asset] =
                   IF save_balances THEN allocations ELSE @,
               !.HOLDING[treasury].balances =
               IF held > principal
               THEN [credited EXCEPT ![i].amount = @ + (held - principal)]
               ELSE IF held < principal
               THEN [credited EXCEPT ![i].amount = @ - (principal - held)]
               ELSE credited],
            Answer("Update", 0, messages))

update_NoCredit(info_sender, asset) ==
    update_Variant(info_sender, asset, FALSE, FALSE)

update_SaveBalances(info_sender, asset) ==
    update_Variant(info_sender, asset, TRUE, TRUE)

update_AdminOnly(info_sender, asset) ==
    IF validate_admin(info_sender, CONFIG.admin_auth) # "ok"
    THEN Fail(validate_admin(info_sender, CONFIG.admin_auth))
    ELSE
    IF asset \notin DOMAIN ASSETS THEN Fail("ASSETS not found")
    ELSE IF asset \notin DOMAIN ALLOCATIONS THEN Fail("ALLOCATIONS not found")
    ELSE IF Len(ALLOCATIONS[asset]) = 0
    THEN Fail("panic: index out of bounds")
    ELSE
    LET allocations == Refreshed(asset, ALLOCATIONS[asset])
        amount_total == TypeTotal(allocations, "Amount")
        portion_total == TypeTotal(allocations, "Portion")
        holder_unbonding == SumUnbondings(HOLDERS, asset, "nobody")
        holder_principal == SumBalances(HOLDERS, asset)
        balance == balance_query(asset)
    IN
    IF amount_total + portion_total + balance < holder_unbonding
    THEN Fail("panic: attempt to subtract with overflow")
    ELSE
    LET out_total == (amount_total + portion_total + balance)
                        - holder_unbonding
        total == out_total + allowance_query(CONFIG.treasury, asset)
        plan == Plan(asset)
        treasury == CONFIG.treasury
    IN
    IF plan.panic THEN Fail("panic: unwrap on None")
    ELSE IF treasury \notin DOMAIN HOLDING THEN Fail("panic: unwrap on None")
    ELSE
    LET credited == AddOrPush(HOLDING[treasury].balances, asset,
                              plan.allowance_used)
        i == TokenPos(credited, asset)
        principal == holder_principal + plan.allowance_used
        held == total - plan.allowance
        messages ==
            plan.messages
            \o (IF plan.send_actions # <<>>
                THEN <<BatchSendMsg(plan.send_actions, asset)>> ELSE <<>>)
            \o (IF plan.send_from_actions # <<>>
                THEN <<BatchSendFromMsg(plan.send_from_actions, asset)>>
                ELSE <<>>)
    IN
    IF held < principal /\ credited[i].amount < principal - held
    THEN Fail("panic: attempt to subtract with overflow")
    ELSE Ok([Store EXCEPT !.HOLDING[treasury].balances =
               IF held > principal
               THEN [credited EXCEPT ![i].amount = @ + (held - principal)]
               ELSE IF held < principal
               THEN [credited EXCEPT ![i].amount = @ - (principal - held)]
               ELSE credited],
            Answer("Update", 0, messages))

update(info_sender, asset) ==
    IF asset \notin DOMAIN ASSETS THEN Fail("ASSETS not found")
    ELSE IF asset \notin DOMAIN ALLOCATIONS THEN Fail("ALLOCATIONS not found")
    ELSE IF Len(ALLOCATIONS[asset]) = 0
    THEN Fail("panic: index out of bounds")
    ELSE
    LET allocations == Refreshed(asset, ALLOCATIONS[asset])
        amount_total == TypeTotal(allocations, "Amount")
        portion_total == TypeTotal(allocations, "Portion")
        holder_unbonding == SumUnbondings(HOLDERS, asset, "nobody")
        holder_principal == SumBalances(HOLDERS, asset)
        balance == balance_query(asset)
    IN
    IF amount_total + portion_total + balance < holder_unbonding
    THEN Fail("panic: attempt to subtract with overflow")
    ELSE
    LET out_total == (amount_total + portion_total + balance)
                        - holder_unbonding
        total == out_total + allowance_query(CONFIG.treasury, asset)
        plan == Plan(asset)
        treasury == CONFIG.treasury
    IN
    IF plan.panic THEN Fail("panic: unwrap on None")
    ELSE IF treasury \notin DOMAIN HOLDING THEN Fail("panic: unwrap on None")
    ELSE
    LET credited == AddOrPush(HOLDING[treasury].balances, asset,
                              plan.allowance_used)
        i == TokenPos(credited, asset)
        principal == holder_principal + plan.allowance_used
        held == total - plan.allowance
        messages ==
            plan.messages
            \o (IF plan.send_actions # <<>>
                THEN <<BatchSendMsg(plan.send_actions, asset)>> ELSE <<>>)
            \o (IF plan.send_from_actions # <<>>
                THEN <<BatchSendFromMsg(plan.send_from_actions, asset)>>
                ELSE <<>>)
    IN
    IF held < principal /\ credited[i].amount < principal - held
    THEN Fail("panic: attempt to subtract with overflow")
    ELSE Ok([Store EXCEPT !.HOLDING[treasury].balances =
               IF held > principal
               THEN [credited EXCEPT ![i].amount = @ + (held - principal)]
               ELSE IF held < principal
               THEN [credited EXCEPT ![i].amount = @ - (principal - held)]
               ELSE credited],
            Answer("Update", 0, messages))

Update(info_sender, asset) == Transaction(update(info_sender, asset), Chain)

(***************************************************************************)
(* unbond                                                                  *)
(***************************************************************************)
RECURSIVE UnbondLoop(_, _, _)
UnbondLoop(asset, allocations, acc) ==
    IF allocations = <<>> \/ acc.unbond_amount = 0 THEN acc
    ELSE LET alloc == Head(allocations)
             unbondable ==
                 adapter_unbondable_query(asset, alloc.contract.address)
         IN
         IF acc.unbond_amount > unbondable
         THEN UnbondLoop(asset, Tail(allocations),
                [messages |->
                     Append(acc.messages,
                            UnbondMsg(asset, unbondable,
                                      alloc.contract.address)),
                 unbond_amount |-> acc.unbond_amount - unbondable])
         ELSE UnbondLoop(asset, Tail(allocations),
                [messages |->
                     Append(acc.messages,
                            UnbondMsg(asset, acc.unbond_amount,
                                      alloc.contract.address)),
                 unbond_amount |-> 0])

Reserves_IgnoreOthers(asset, unbonder) == balance_query(asset)

Reserves_CountSelf(asset, unbonder) ==
    LET other_unbondings == SumUnbondings(HOLDERS, asset, "nobody")
        reserves == balance_query(asset)
    IN IF reserves > other_unbondings THEN reserves - other_unbondings ELSE 0

Reserves(asset, unbonder) ==
    LET other_unbondings == SumUnbondings(HOLDERS, asset, unbonder)
        reserves == balance_query(asset)
    IN IF reserves > other_unbondings THEN reserves - other_unbondings ELSE 0

unbond_Variant(info_sender, asset, amount, check_status, check_balance) ==
    LET unbonder == IF validate_admin(info_sender, CONFIG.admin_auth) = "ok"
                    THEN CONFIG.treasury ELSE info_sender
    IN
    IF asset \notin DOMAIN ASSETS THEN Fail("ASSETS not found")
    ELSE IF ~Contains(HOLDERS, unbonder) THEN Fail("unauthorized")
    ELSE IF unbonder \notin DOMAIN HOLDING THEN Fail("HOLDING not found")
    ELSE IF check_status /\ HOLDING[unbonder].status # "Active"
    THEN Fail("Inactive Holding")
    ELSE
    LET holding == HOLDING[unbonder]
        balance_i == TokenPos(holding.balances, asset)
    IN
    IF balance_i = 0 THEN Fail("Cannot unbond, holder has no holdings")
    ELSE IF check_balance /\ holding.balances[balance_i].amount < amount
    THEN Fail("Not enough funds to unbond")
    ELSE
    LET moved == [holding EXCEPT
                    !.balances[balance_i].amount =
                        IF @ < amount THEN 0 ELSE @ - amount,
                    !.unbondings = AddOrPush(@, asset, amount)]
        reserves == Reserves(asset, unbonder)
        sent == IF reserves > 0
                THEN (IF reserves < amount THEN reserves ELSE amount)
                ELSE 0
        settled == IF reserves > 0
                   THEN [moved EXCEPT
                           !.unbondings[TokenPos(moved.unbondings, asset)]
                               .amount = @ - sent]
                   ELSE moved
        first == IF reserves > 0
                 THEN <<SendMsg(unbonder, sent, asset)>> ELSE <<>>
    IN
    IF asset \notin DOMAIN ALLOCATIONS THEN Fail("ALLOCATIONS not found")
    ELSE
    LET allocations == SortByBalance(Refreshed(asset, ALLOCATIONS[asset]))
        loop == UnbondLoop(asset, allocations,
                           [messages |-> first,
                            unbond_amount |-> amount - sent])
    IN Ok([Store EXCEPT !.HOLDING[unbonder] = settled],
          Answer("Unbond", loop.unbond_amount, loop.messages))

unbond_NoBalanceCheck(info_sender, asset, amount) ==
    unbond_Variant(info_sender, asset, amount, TRUE, FALSE)

unbond_NoStatusCheck(info_sender, asset, amount) ==
    unbond_Variant(info_sender, asset, amount, FALSE, TRUE)

unbond(info_sender, asset, amount) ==
    LET unbonder == IF validate_admin(info_sender, CONFIG.admin_auth) = "ok"
                    THEN CONFIG.treasury ELSE info_sender
    IN
    IF asset \notin DOMAIN ASSETS THEN Fail("ASSETS not found")
    ELSE IF ~Contains(HOLDERS, unbonder) THEN Fail("unauthorized")
    ELSE IF unbonder \notin DOMAIN HOLDING THEN Fail("HOLDING not found")
    ELSE IF HOLDING[unbonder].status # "Active" THEN Fail("Inactive Holding")
    ELSE
    LET holding == HOLDING[unbonder]
        balance_i == TokenPos(holding.balances, asset)
    IN
    IF balance_i = 0 THEN Fail("Cannot unbond, holder has no holdings")
    ELSE IF holding.balances[balance_i].amount < amount
    THEN Fail("Not enough funds to unbond")
    ELSE
    LET moved == [holding EXCEPT
                    !.balances[balance_i].amount = @ - amount,
                    !.unbondings = AddOrPush(@, asset, amount)]
        reserves == Reserves(asset, unbonder)
        sent == IF reserves > 0
                THEN (IF reserves < amount THEN reserves ELSE amount)
                ELSE 0
        settled == IF reserves > 0
                   THEN [moved EXCEPT
                           !.unbondings[TokenPos(moved.unbondings, asset)]
                               .amount = @ - sent]
                   ELSE moved
        first == IF reserves > 0
                 THEN <<SendMsg(unbonder, sent, asset)>> ELSE <<>>
    IN
    IF asset \notin DOMAIN ALLOCATIONS THEN Fail("ALLOCATIONS not found")
    ELSE
    LET allocations == SortByBalance(Refreshed(asset, ALLOCATIONS[asset]))
        loop == UnbondLoop(asset, allocations,
                           [messages |-> first,
                            unbond_amount |-> amount - sent])
    IN Ok([Store EXCEPT !.HOLDING[unbonder] = settled],
          Answer("Unbond", loop.unbond_amount, loop.messages))

Unbond(info_sender, asset, amount) ==
    Transaction(unbond(info_sender, asset, amount), Chain)

(***************************************************************************)
(* The world outside the manager: the treasury sets the allowance it       *)
(* grants, and an adapter's position gains or loses value.                 *)
(***************************************************************************)
SetAllowance(asset, amount) ==
    /\ allowance[asset] # amount
    /\ allowance' = [allowance EXCEPT ![asset] = amount]
    /\ UNCHANGED <<storage, liquid, adapters, resp>>

AdapterGain(asset, adapter) ==
    /\ adapters[asset][adapter].bonded > 0
    /\ adapters' = [adapters EXCEPT ![asset][adapter].bonded = @ + 1]
    /\ UNCHANGED <<storage, liquid, allowance, resp>>

AdapterLoss(asset, adapter) ==
    /\ adapters[asset][adapter].bonded > 0
    /\ adapters' = [adapters EXCEPT ![asset][adapter].bonded = @ - 1]
    /\ UNCHANGED <<storage, liquid, allowance, resp>>

(***************************************************************************)
(* Inputs of the commands.                                                 *)
(***************************************************************************)
Configs == [admin_auth : AdminAuth, treasury : {"treasury", "h1"}]

Contract(address, code_hash) == [address |-> address, code_hash |-> code_hash]

Allocation(nick, address, alloc_type, amount, tolerance) ==
    [nick |-> nick, contract |-> Contract(address, "hash1"),
     alloc_type |-> alloc_type, amount |-> amount, tolerance |-> tolerance]

(***************************************************************************)
(* Spec: the ledger of one asset.  The admin registers the asset, sets     *)
(* allocations, adds the holder h1 and closes the holding of h1 or of the  *)
(* treasury; deposits, unbonds, claims and rebalances follow in any order, *)
(* while the treasury changes its allowance.                               *)
(***************************************************************************)
LedgerAllocations ==
    { Allocation(<<"a">>, "ad1", "Amount", 1, 0),
      Allocation(<<"b">>, "ad2", "Portion", 2, 0),
      Allocation(<<"b">>, "ad2", "Portion", 4, 2),
      Allocation(<<>>, "ad1", "Portion", 2, 0) }

Supply(asset) == TotalFunds(asset) + allowance[asset]

Unfunded ==
    /\ TotalFunds("X") = 0
    /\ \A h \in DOMAIN HOLDING :
          HOLDING[h].balances = <<>> /\ HOLDING[h].unbondings = <<>>

Next ==
    \/ /\ Unfunded /\ Len(ASSET_LIST) < 1
       /\ RegisterAsset("admin", Contract("X", "hash1"))
    \/ /\ Unfunded
       /\ \E a \in LedgerAllocations : Allocate("admin", "X", a)
    \/ /\ Unfunded
       /\ \E s \in {"admin", "h1"} : AddHolder(s, "h1")
    \/ \E h \in {"treasury", "h1"} : RemoveHolder("admin", h)
    \/ /\ Supply("X") < MaxSupply
       /\ \E from \in {"h1", "admin"},
             amount \in 1..(MaxSupply - Supply("X")) :
             amount <= MaxAmount /\ Receive("X", from, amount)
    \/ \E s \in {"admin", "h1"} : Claim(s, "X")
    \/ \E s \in {"admin", "h1"} : Update(s, "X")
    \/ \E s \in {"admin", "h1"}, amount \in 0..MaxAmount :
          Unbond(s, "X", amount)
    \/ \E amount \in 0..MaxAllowance :
          /\ TotalFunds("X") + amount <= MaxSupply
          /\ SetAllowance("X", amount)

Spec == Init /\ [][Next]_vars

(***************************************************************************)
(* SpecDrift: the same ledger with active holders only, while the adapters *)
(* gain or lose value between the commands.                                *)
(***************************************************************************)
DriftAllocations ==
    { Allocation(<<"a">>, "ad1", "Amount", 1, 0),
      Allocation(<<"b">>, "ad2", "Portion", 4, 0) }

NextDrift ==
    \/ /\ Unfunded /\ Len(ASSET_LIST) < 1
       /\ RegisterAsset("admin", Contract("X", "hash1"))
    \/ /\ Unfunded
       /\ \E a \in DriftAllocations : Allocate("admin", "X", a)
    \/ /\ Unfunded
       /\ AddHolder("admin", "h1")
    \/ /\ Supply("X") < MaxSupply
       /\ \E from \in {"h1", "admin"},
             amount \in 1..(MaxSupply - Supply("X")) :
             amount <= MaxAmount /\ Receive("X", from, amount)
    \/ \E s \in {"admin", "h1"} : Claim(s, "X")
    \/ Update("h1", "X")
    \/ \E s \in {"admin", "h1"}, amount \in 1..MaxAmount :
          Unbond(s, "X", amount)
    \/ \E amount \in 0..MaxAllowance :
          /\ TotalFunds("X") + amount <= MaxSupply
          /\ SetAllowance("X", amount)
    \/ \E d \in Adapter : Supply("X") < MaxSupply /\ AdapterGain("X", d)
    \/ \E d \in Adapter : AdapterLoss("X", d)

SpecDrift == Init /\ [][NextDrift]_vars

(***************************************************************************)
(* SpecAlloc: the allocation registry of two assets.  The admin and a      *)
(* caller without permission register assets and set allocations.          *)
(***************************************************************************)
AllocInputs ==
    { [nick |-> <<"n">>, contract |-> Contract(d, "hash1"),
       alloc_type |-> "Portion", amount |-> n, tolerance |-> 0] :
         d \in Adapter, n \in 1..MaxTarget }
    \cup
    { [nick |-> <<"n">>, contract |-> Contract(d, "hash1"),
       alloc_type |-> "Amount", amount |-> 1, tolerance |-> 0] :
         d \in Adapter }
    \cup
    { [nick |-> <<>>, contract |-> Contract("ad1", "hash2"),
       alloc_type |-> "Portion", amount |-> 1, tolerance |-> 2] }

NextAlloc ==
    \/ /\ Len(ASSET_LIST) < MaxAssetList
       /\ \E s \in {"admin", "h1"}, t \in Asset :
             RegisterAsset(s, Contract(t, "hash1"))
    \/ \E s \in {"admin", "h1"}, t \in Asset, a \in AllocInputs :
          Allocate(s, t, a)

SpecAlloc == Init /\ [][NextAlloc]_vars

(***************************************************************************)
(* SpecAdmin: configuration, holders and deposits.  Callers with and       *)
(* without permission change the config, register assets, set allocations  *)
(* and add or remove holders, and anybody deposits.                        *)
(***************************************************************************)
AdminCallers == {"admin", "h1", "ad1"}

AdminAllocations ==
    { Allocation(<<"a">>, "ad1", "Amount", 1, 0),
      Allocation(<<"b">>, "ad2", "Portion", 2, 0) }

NextAdmin ==
    \/ \E s \in AdminCallers, c \in Configs : UpdateConfig(s, c)
    \/ /\ Len(ASSET_LIST) < MaxAssetList
       /\ \E s \in AdminCallers : RegisterAsset(s, Contract("X", "hash1"))
    \/ \E s \in AdminCallers, a \in AdminAllocations : Allocate(s, "X", a)
    \/ \E s \in AdminCallers, h \in {"h1", "ad1"} : AddHolder(s, h)
    \/ \E s \in AdminCallers, h \in {"treasury", "h1", "ad1"} :
          RemoveHolder(s, h)
    \/ /\ Supply("X") < MaxSupply
       /\ \E from \in {"h1", "admin", "ad1"},
             amount \in 1..(MaxSupply - Supply("X")) :
             amount <= MaxAmount /\ Receive("X", from, amount)

SpecAdmin == Init /\ [][NextAdmin]_vars

(***************************************************************************)
(* SpecRebalance: the rebalance planner.  The admin registers the asset    *)
(* and sets its allocations, holders and strangers deposit, the treasury   *)
(* changes its allowance, holders unbond and claim, and anybody triggers a *)
(* rebalance.                                                              *)
(***************************************************************************)
MaxFunds == 3

MaxDeposit == 2

RebalanceAllocations ==
    { Allocation(<<"a">>, "ad1", "Amount", 1, 0),
      Allocation(<<"a">>, "ad1", "Amount", MaxFunds, 0),
      Allocation(<<"a">>, "ad1", "Portion", 1, 0),
      Allocation(<<"b">>, "ad2", "Portion", 4, 0),
      Allocation(<<"b">>, "ad2", "Portion", 2, 0),
      Allocation(<<"b">>, "ad2", "Portion", 4, 2) }

Callers == {"admin", "h1", "ad1"}

NextRebalance ==
    \/ /\ Unfunded /\ Len(ASSET_LIST) < 1
       /\ RegisterAsset("admin", Contract("X", "hash1"))
    \/ /\ Unfunded
       /\ \E a \in RebalanceAllocations : Allocate("admin", "X", a)
    \/ /\ Unfunded
       /\ AddHolder("admin", "h1")
    \/ \E from \in {"h1", "admin"}, amount \in 1..MaxDeposit :
          /\ Supply("X") + amount <= MaxFunds
          /\ Receive("X", from, amount)
    \/ \E amount \in 0..MaxAllowance :
          /\ TotalFunds("X") + amount <= MaxFunds
          /\ SetAllowance("X", amount)
    \/ \E s \in {"admin", "h1"}, amount \in 1..MaxDeposit :
          Unbond(s, "X", amount)
    \/ \E s \in {"admin", "h1"} : Claim(s, "X")
    \/ \E s \in Callers : Update(s, "X")

SpecRebalance == Init /\ [][NextRebalance]_vars

(***************************************************************************)
(* SpecAssets: the ledger of two assets.  The admin registers X and then  *)
(* Y, gives X an adapter and adds the holder h1; h1 deposits either asset  *)
(* and the treasury X, and unbonds and claims of either asset and          *)
(* rebalances of X follow in any order.                                    *)
(***************************************************************************)
MaxHeld == 3

NextAssets ==
    \/ /\ Unfunded /\ Len(ASSET_LIST) < MaxAssetList
       /\ \E t \in Asset :
             /\ ~Contains(ASSET_LIST, t)
             /\ t = "Y" => Contains(ASSET_LIST, "X")
             /\ RegisterAsset("admin", Contract(t, "hash1"))
    \/ /\ Unfunded
       /\ Allocate("admin", "X", Allocation(<<"a">>, "ad1", "Amount", 1, 0))
    \/ /\ Unfunded
       /\ AddHolder("admin", "h1")
    \/ \E t \in Asset, from \in {"h1", "admin"} :
          /\ from = "admin" => t = "X"
          /\ TotalFunds("X") + TotalFunds("Y") < MaxHeld
          /\ Receive(t, from, 1)
    \/ \E s \in {"admin", "h1"}, t \in Asset, amount \in 1..MaxAmount :
          Unbond(s, t, amount)
    \/ \E s \in {"admin", "h1"}, t \in Asset : Claim(s, t)
    \/ Update("h1", "X")

SpecAssets == Init /\ [][NextAssets]_vars

(***************************************************************************)
(* SpecSettle: withdrawals under fair claiming.  The ledger of one asset   *)
(* with a fixed and a proportional allocation, where all deposits come     *)
(* before the first withdrawal and a holder who can claim eventually does; *)
(* an adapter asked to unbond makes the funds claimable at once, and pays  *)
(* them when the manager claims.                                           *)
(***************************************************************************)
NoWithdrawal == \A h \in DOMAIN HOLDING : HOLDING[h].unbondings = <<>>

SettleAllocations ==
    { Allocation(<<"a">>, "ad1", "Amount", MaxFunds, 0),
      Allocation(<<"b">>, "ad2", "Portion", 4, 0) }

NextSettle ==
    \/ /\ Unfunded /\ Len(ASSET_LIST) < 1
       /\ RegisterAsset("admin", Contract("X", "hash1"))
    \/ /\ Unfunded
       /\ \E a \in SettleAllocations : Allocate("admin", "X", a)
    \/ /\ Unfunded
       /\ AddHolder("admin", "h1")
    \/ \E from \in {"h1", "admin"}, amount \in 1..MaxAmount :
          /\ NoWithdrawal
          /\ TotalFunds("X") + amount <= MaxSupply
          /\ Receive("X", from, amount)
    \/ \E s \in {"admin", "h1"}, amount \in 1..MaxAmount :
          Unbond(s, "X", amount)
    \/ \E s \in {"admin", "h1"} : Claim(s, "X")
    \/ Update("h1", "X")

SpecSettle ==
    /\ Init
    /\ [][NextSettle]_vars
    /\ \A s \in {"admin", "h1"} : WF_vars(Claim(s, "X"))

(***************************************************************************)
(* Quantities the properties speak of.                                     *)
(***************************************************************************)
RECURSIVE SumFn(_)
SumFn(f) ==
    IF DOMAIN f = {} THEN 0
    ELSE LET x == CHOOSE y \in DOMAIN f : TRUE
         IN f[x] + SumFn([y \in DOMAIN f \ {x} |-> f[y]])

Available(st, h, asset) == AmountOf(st.HOLDING[h].balances, asset)

Pending(st, h, asset) == AmountOf(st.HOLDING[h].unbondings, asset)

Liabilities(st, asset) ==
    SumFn([h \in DOMAIN st.HOLDING |->
              Available(st, h, asset) + Pending(st, h, asset)])

Funds(ch, asset) ==
    ch.liquid[asset]
    + SumFn([d \in Adapter |-> ch.adapters[asset][d].bonded
                               + ch.adapters[asset][d].claimable])

Drift(st, ch, asset) == Funds(ch, asset) - Liabilities(st, asset)

TargetSum(apps) ==
    SumFn([i \in 1..Len(apps) |->
              IF apps[i].alloc_type = "Portion" THEN apps[i].amount ELSE 0])

StoredApps(asset) ==
    IF asset \in DOMAIN ALLOCATIONS THEN ALLOCATIONS[asset] ELSE <<>>

OtherTargets(asset, allocation) ==
    SumFn([i \in {j \in 1..Len(StoredApps(asset)) :
                    StoredApps(asset)[j].contract.address
                        # allocation.contract.address} |->
              IF StoredApps(asset)[i].alloc_type = "Portion"
              THEN StoredApps(asset)[i].amount ELSE 0])

NewTotal(asset, allocation) ==
    OtherTargets(asset, allocation)
    + (IF allocation.alloc_type = "Portion" THEN allocation.amount ELSE 0)

Permitted(s) == validate_admin(s, CONFIG.admin_auth) = "ok"

IsSubAccount(asset, address) ==
    \E i \in 1..Len(StoredApps(asset)) :
       StoredApps(asset)[i].contract.address = address

HasSend(messages) ==
    \E i \in 1..Len(messages) : messages[i].kind = "send"

C2_CapInvariant ==
    /\ \A t \in DOMAIN ALLOCATIONS :
          TargetSum(ALLOCATIONS[t]) <= ONE_HUNDRED_PERCENT
    /\ \A s \in {"admin", "h1"}, t \in Asset, a \in AllocInputs :
          LET out == Outcome(allocate(s, t, a), Chain) IN
          Permitted(s) =>
             /\ NewTotal(t, a) > ONE_HUNDRED_PERCENT => ~out.committed
             /\ NewTotal(t, a) <= ONE_HUNDRED_PERCENT =>
                   /\ out.committed
                   /\ TargetSum(out.st.ALLOCATIONS[t]) = NewTotal(t, a)

C2_Witness ==
    /\ resp.answer = "Allocate"
    /\ "X" \in DOMAIN ALLOCATIONS
    /\ Len(ALLOCATIONS["X"]) = 2
    /\ TargetSum(ALLOCATIONS["X"]) = ONE_HUNDRED_PERCENT
    /\ \E a \in AllocInputs :
          /\ NewTotal("X", a) > ONE_HUNDRED_PERCENT
          /\ IsErr(allocate("admin", "X", a).resp)

(***************************************************************************)
(* C3. A set_allocation that would bring the proportional total above 100% *)
(* fails with the cap error and stores nothing: the allocation lists are   *)
(* what they were, the entry it would have replaced included.              *)
(***************************************************************************)
C3_RejectedKeepsList ==
    \A s \in {"admin", "h1"}, t \in Asset, a \in AllocInputs :
       LET out == Outcome(allocate(s, t, a), Chain) IN
       (Permitted(s) /\ NewTotal(t, a) > ONE_HUNDRED_PERCENT) =>
          /\ ~out.committed
          /\ out.resp.status = "Invalid allocation total exceeding 100%"
          /\ out.st.ALLOCATIONS = ALLOCATIONS
          /\ \A i \in 1..Len(StoredApps(t)) :
                out.st.ALLOCATIONS[t][i] = StoredApps(t)[i]

C3_Witness ==
    /\ "X" \in DOMAIN ALLOCATIONS
    /\ \E a \in AllocInputs :
          /\ NewTotal("X", a) > ONE_HUNDRED_PERCENT
          /\ IsSubAccount("X", a.contract.address)
          /\ allocate("admin", "X", a).resp.status
                = "Invalid allocation total exceeding 100%"

(***************************************************************************)
(* C4. An asset's allocation list holds at most one allocation per         *)
(* sub-account address: an accepted set_allocation for an address already  *)
(* in the list replaces its entry, and for a new address adds one entry.   *)
(***************************************************************************)
C4_OnePerSubAccount ==
    /\ \A t \in DOMAIN ALLOCATIONS :
          \A i, j \in 1..Len(ALLOCATIONS[t]) :
             ALLOCATIONS[t][i].contract.address
                = ALLOCATIONS[t][j].contract.address => i = j
    /\ \A s \in {"admin", "h1"}, t \in Asset, a \in AllocInputs :
          LET out == Outcome(allocate(s, t, a), Chain) IN
          out.committed =>
             /\ Len(out.st.ALLOCATIONS[t]) =
                   IF IsSubAccount(t, a.contract.address)
                   THEN Len(StoredApps(t)) ELSE Len(StoredApps(t)) + 1
             /\ \E i \in 1..Len(out.st.ALLOCATIONS[t]) :
                   /\ out.st.ALLOCATIONS[t][i].contract = a.contract
                   /\ out.st.ALLOCATIONS[t][i].amount = a.amount
                   /\ out.st.ALLOCATIONS[t][i].alloc_type = a.alloc_type

C4_Witness ==
    /\ resp.answer = "Allocate"
    /\ "X" \in DOMAIN ALLOCATIONS
    /\ Len(ALLOCATIONS["X"]) = 2
    /\ ALLOCATIONS["X"][2].contract = Contract("ad1", "hash2")
    /\ ALLOCATIONS["X"][1].contract.address = "ad2"

(***************************************************************************)
(* C5. RegisterAsset, SetAllocation, AddHolder, RemoveHolder and           *)
(* UpdateConfig issued by a caller without the TreasuryManager permission  *)
(* fail with the authorization error and leave the config, the asset list, *)
(* the allocation lists, the holder list and all holdings unchanged.       *)
(***************************************************************************)
Refused(out) ==
    /\ ~out.committed
    /\ out.resp.status \in {"UnauthorizedAdmin", "UnregisteredAdmin"}
    /\ out.st = Store
    /\ out.chain = Chain

C5_UnauthorizedRefused ==
    \A s \in AdminCallers :
       ~Permitted(s) =>
          /\ \A t \in Asset :
                Refused(Outcome(try_register_asset(s, Contract(t, "hash1")),
                                Chain))
          /\ \A a \in AdminAllocations :
                Refused(Outcome(allocate(s, "X", a), Chain))
          /\ \A h \in Addr :
                /\ Refused(Outcome(add_holder(s, h), Chain))
                /\ Refused(Outcome(remove_holder(s, h), Chain))
          /\ \A c \in Configs :
                Refused(Outcome(try_update_config(s, c), Chain))

C5_Witness ==
    /\ CONFIG.admin_auth = "auth1"
    /\ "X" \in DOMAIN ALLOCATIONS
    /\ Len(ALLOCATIONS["X"]) = 1
    /\ Len(HOLDERS) = 2
    /\ remove_holder("h1", "treasury").resp.status = "UnauthorizedAdmin"
    /\ add_holder("ad1", "admin").resp.status = "UnregisteredAdmin"
    /\ ~IsErr(remove_holder("admin", "treasury").resp)

(***************************************************************************)
(* C6. A deposit of amount a of a registered asset from an address that is *)
(* not one of the asset's allocation sub-accounts increases exactly one    *)
(* available balance by exactly a: that of the holder `from' when `from'   *)
(* is in the holder list, otherwise that of the treasury holder; every     *)
(* other balance and every pending amount is unchanged.                    *)
(***************************************************************************)
C6_DepositCredited ==
    \A from \in Addr, amount \in 1..MaxAmount :
       LET out == Outcome(receive("X", from, amount), Paid("X", amount))
           target == IF Contains(HOLDERS, from) THEN from ELSE CONFIG.treasury
       IN ("X" \in DOMAIN ASSETS /\ ~IsSubAccount("X", from)) =>
             /\ out.committed
             /\ DOMAIN out.st.HOLDING = DOMAIN HOLDING
             /\ target \in DOMAIN HOLDING
             /\ Available(out.st, target, "X")
                   = Available(Store, target, "X") + amount
             /\ \A h \in DOMAIN HOLDING :
                   /\ out.st.HOLDING[h].unbondings = HOLDING[h].unbondings
                   /\ out.st.HOLDING[h].status = HOLDING[h].status
                   /\ h # target =>
                         out.st.HOLDING[h].balances = HOLDING[h].balances
                   /\ \A t \in Asset \ {"X"} :
                         Available(out.st, h, t) = Available(Store, h, t)

(***************************************************************************)
(* C7. A deposit whose depositing address is the sub-account address of a  *)
(* registered allocation of that asset is accepted and credited to no      *)
(* holder: every holding, available and pending, is unchanged, even when   *)
(* that address is also in the holder list.                                *)
(***************************************************************************)
C7_ReturnNotCredited ==
    \A from \in Addr, amount \in 1..MaxAmount :
       LET out == Outcome(receive("X", from, amount), Paid("X", amount))
       IN ("X" \in DOMAIN ASSETS /\ IsSubAccount("X", from)) =>
             /\ out.committed
             /\ out.st.HOLDING = HOLDING
             /\ out.chain.liquid["X"] = liquid["X"] + amount

C7_Witness ==
    /\ resp.answer = "Receive"
    /\ Contains(HOLDERS, "ad1")
    /\ IsSubAccount("X", "ad1")
    /\ liquid["X"] = 1
    /\ \A h \in DOMAIN HOLDING : Available(Store, h, "X") = 0

(***************************************************************************)
(* C8. A Closed holding accepts no new deposits: once RemoveHolder(h) has  *)
(* closed h's holding, no deposit, from h or from anyone else, increases   *)
(* the available balance of that holding.                                  *)
(***************************************************************************)
C8_ClosedTakesNoDeposit ==
    \A h \in DOMAIN HOLDING :
       HOLDING[h].status = "Closed" =>
          \A from \in Addr, amount \in 1..MaxAmount :
             LET out == Outcome(receive("X", from, amount),
                                Paid("X", amount))
             IN Available(out.st, h, "X") <= Available(Store, h, "X")

(***************************************************************************)
(* C9. The treasury holder always exists: after any sequence of commands,  *)
(* UpdateConfig changing the treasury included, the address configured as  *)
(* treasury is in the holder list and has a holding record, so that a      *)
(* deposit from a non-holder finds a treasury holding to credit.           *)
(***************************************************************************)
C9_TreasuryExists ==
    /\ Contains(HOLDERS, CONFIG.treasury)
    /\ CONFIG.treasury \in DOMAIN HOLDING
    /\ "X" \in DOMAIN ASSETS =>
          \A from \in Addr :
             Outcome(receive("X", from, 1), Paid("X", 1)).committed

(***************************************************************************)
(* C10. Unbond reserves liquidity for the pending withdrawals of other     *)
(* holders: when the other holders' pending amounts of the asset sum to at *)
(* least the liquid balance, a holder who unbonds amount a is sent nothing *)
(* and their pending amount grows by the full a.                           *)
(***************************************************************************)
Unbonder(s) == IF Permitted(s) THEN CONFIG.treasury ELSE s

OthersPending(st, unbonder, asset) ==
    SumFn([h \in DOMAIN st.HOLDING \ {unbonder} |-> Pending(st, h, asset)])

C10_UnbondReservation ==
    \A s \in {"h1", "admin"}, amount \in 1..MaxSupply :
       LET out == Outcome(unbond(s, "X", amount), Chain) IN
       (out.committed /\ OthersPending(Store, Unbonder(s), "X") >= liquid["X"])
          => /\ ~HasSend(out.resp.messages)
             /\ out.chain.liquid["X"] = liquid["X"]
             /\ Pending(out.st, Unbonder(s), "X")
                   = Pending(Store, Unbonder(s), "X") + amount

C10_Witness ==
    /\ resp.answer = "Unbond"
    /\ ~HasSend(resp.messages)
    /\ liquid["X"] >= 1
    /\ "h1" \in DOMAIN HOLDING
    /\ Pending(Store, "h1", "X") >= liquid["X"]
    /\ Pending(Store, "treasury", "X") >= liquid["X"]


(***************************************************************************)
(* C11. An unbond by an Active holder of more than the holder's available  *)
(* balance of the asset fails with the insufficient-balance error: every   *)
(* holding, available and pending, is unchanged, and no transfer and no    *)
(* adapter instruction is emitted.                                         *)
(***************************************************************************)
ActiveHolder(h) ==
    /\ Contains(HOLDERS, h)
    /\ h \in DOMAIN HOLDING
    /\ HOLDING[h].status = "Active"

C11_InsufficientBalance ==
    \A s \in {"h1", "admin"}, amount \in 1..(MaxSupply + 1) :
       LET out == Outcome(unbond(s, "X", amount), Chain) IN
       ("X" \in DOMAIN ASSETS /\ ActiveHolder(Unbonder(s))
          /\ amount > Available(Store, Unbonder(s), "X")) =>
             /\ ~out.committed
             /\ out.resp.status \in {"Not enough funds to unbond",
                                     "Cannot unbond, holder has no holdings"}
             /\ out.resp.messages = <<>>
             /\ out.st.HOLDING = HOLDING
             /\ out.chain = Chain

C11_Witness ==
    /\ ActiveHolder("h1")
    /\ Available(Store, "h1", "X") = 1
    /\ liquid["X"] = 1
    /\ unbond("h1", "X", 2).resp.status = "Not enough funds to unbond"
    /\ unbond("admin", "X", 1).resp.status
          = "Cannot unbond, holder has no holdings"


(***************************************************************************)
(* C12. A successful unbond of amount a takes a out of the holder's        *)
(* available balance, transfers s = min(max(liquid balance - other         *)
(* holders' pending amounts, 0), a) to the holder, and leaves the holder's *)
(* pending amount at its previous value + a - s; no other holding changes. *)
(***************************************************************************)
Min(x, y) == IF x < y THEN x ELSE y

Max(x, y) == IF x > y THEN x ELSE y

Payable(unbonder, asset, amount) ==
    Min(Max(liquid[asset] - OthersPending(Store, unbonder, asset), 0), amount)

Sends(messages) ==
    SelectSeq(messages, LAMBDA m : m.kind = "send")

C12_UnbondSettlement ==
    \A s \in {"h1", "admin"}, amount \in 0..MaxSupply :
       LET out == Outcome(unbond(s, "X", amount), Chain)
           u == Unbonder(s)
           paid == Payable(u, "X", amount)
       IN out.committed =>
             /\ Available(out.st, u, "X") = Available(Store, u, "X") - amount
             /\ Pending(out.st, u, "X") = Pending(Store, u, "X") + amount - paid
             /\ out.chain.liquid["X"] = liquid["X"] - paid
             /\ \A m \in { Sends(out.resp.messages)[i] :
                             i \in 1..Len(Sends(out.resp.messages)) } :
                   m = SendMsg(u, paid, "X")
             /\ paid > 0 => Len(Sends(out.resp.messages)) = 1
             /\ \A h \in DOMAIN HOLDING \ {u} :
                   out.st.HOLDING[h] = HOLDING[h]

C12_Witness ==
    /\ resp.answer = "Unbond"
    /\ Sends(resp.messages) = <<SendMsg("h1", 1, "X")>>
    /\ "h1" \in DOMAIN HOLDING
    /\ HOLDING["h1"].unbondings = <<[token |-> "X", amount |-> 0]>>
    /\ Available(Store, "h1", "X") = 0
    /\ Pending(Store, "treasury", "X") = 0
    /\ liquid["X"] = 1


(***************************************************************************)
(* C13. Unbond by, or on behalf of, a holder whose holding is not Active   *)
(* fails with the inactive-holding error and changes no holding, whatever  *)
(* the holder's available balance; a Closed holder can still claim its     *)
(* pending amount: the claim succeeds and pays out of what is liquid.      *)
(***************************************************************************)
ClosedHolder(h) ==
    /\ Contains(HOLDERS, h)
    /\ h \in DOMAIN HOLDING
    /\ HOLDING[h].status = "Closed"

C13_InactiveHolding ==
    \A s \in {"h1", "admin"} :
       ("X" \in DOMAIN ASSETS /\ ClosedHolder(Unbonder(s))) =>
          /\ \A amount \in 0..MaxSupply :
                LET out == Outcome(unbond(s, "X", amount), Chain) IN
                /\ ~out.committed
                /\ out.resp.status = "Inactive Holding"
                /\ out.st.HOLDING = HOLDING
                /\ out.chain = Chain
          /\ Pending(Store, Unbonder(s), "X") > 0 =>
                LET out == Outcome(claim(s, "X"), Chain)
                    paid == Pending(Store, Unbonder(s), "X")
                              - Pending(out.st, Unbonder(s), "X")
                IN /\ out.committed
                   /\ paid >= Min(Pending(Store, Unbonder(s), "X"),
                                  liquid["X"])
                   /\ Sends(out.resp.messages)
                         = <<SendMsg(Unbonder(s), paid, "X")>>
                   /\ out.st.HOLDING[Unbonder(s)].status = "Closed"

C13_Witness ==
    /\ resp.answer = "Claim"
    /\ Sends(resp.messages) = <<SendMsg("h1", 1, "X")>>
    /\ ClosedHolder("h1")
    /\ Available(Store, "h1", "X") = 1
    /\ Pending(Store, "h1", "X") = 0
    /\ unbond("h1", "X", 1).resp.status = "Inactive Holding"


(***************************************************************************)
(* C14. Claim requires a nonzero pending amount for the asset: a claim by  *)
(* a holder whose pending amount of the asset is zero, because it never    *)
(* unbonded or because an earlier unbond or claim settled it in full,      *)
(* fails with the no-unbonding error and emits no transfer.                *)
(***************************************************************************)
C14_ClaimNeedsPending ==
    \A s \in {"h1", "admin"} :
       LET out == Outcome(claim(s, "X"), Chain)
           u == Unbonder(s)
       IN ("X" \in DOMAIN ASSETS /\ Contains(HOLDERS, u)
             /\ u \in DOMAIN HOLDING /\ Pending(Store, u, "X") = 0) =>
             /\ ~out.committed
             /\ out.resp.status = "no unbondings"
             /\ out.resp.messages = <<>>


(***************************************************************************)
(* C15. A successful claim transfers to the holder exactly min(pending,    *)
(* liquid balance + the claimable amounts of the allocations it has asked) *)
(* and reduces the holder's pending amount by exactly that; allocations    *)
(* are asked in registry order, only while the shortfall pending - liquid  *)
(* is not covered by those asked before, and none when pending <= liquid.  *)
(***************************************************************************)
ClaimableOf(asset, i) ==
    adapters[asset][StoredApps(asset)[i].contract.address].claimable

ClaimableBefore(asset, i) ==
    SumFn([j \in 1..(i - 1) |-> ClaimableOf(asset, j)])

Asked(asset, pending) ==
    { i \in 1..Len(StoredApps(asset)) :
        /\ pending > liquid[asset]
        /\ ClaimableOf(asset, i) > 0
        /\ ClaimableBefore(asset, i) < pending - liquid[asset] }

RECURSIVE InOrder(_)
InOrder(S) ==
    IF S = {} THEN <<>>
    ELSE LET i == CHOOSE x \in S : \A y \in S : x <= y
         IN <<i>> \o InOrder(S \ {i})

C15_ClaimAmount ==
    \A s \in {"h1", "admin"} :
       LET out == Outcome(claim(s, "X"), Chain)
           u == Unbonder(s)
           pending == Pending(Store, u, "X")
           asked == InOrder(Asked("X", pending))
           claimed == SumFn([k \in 1..Len(asked) |->
                               ClaimableOf("X", asked[k])])
           paid == Min(pending, liquid["X"] + claimed)
       IN out.committed =>
             /\ out.resp.messages =
                   [k \in 1..Len(asked) |->
                      ClaimMsg("X", StoredApps("X")[asked[k]].contract.address)]
                   \o <<SendMsg(u, paid, "X")>>
             /\ Pending(out.st, u, "X") = pending - paid
             /\ out.chain.liquid["X"] = liquid["X"] + claimed - paid
             /\ \A h \in DOMAIN HOLDING \ {u} :
                   out.st.HOLDING[h] = HOLDING[h]
             /\ out.st.HOLDING[u].balances = HOLDING[u].balances

C15_Witness ==
    /\ resp.answer = "Claim"
    /\ resp.messages = <<ClaimMsg("X", "ad1"), SendMsg("h1", 1, "X")>>
    /\ HOLDING["h1"].unbondings = <<[token |-> "X", amount |-> 0]>>
    /\ adapters["X"]["ad1"].claimable = 0
    /\ liquid["X"] = 0


(***************************************************************************)
(* C16. For an asset with one FixedAmount allocation of target T,          *)
(* tolerance 0 and allocation balance 0, and a liquid balance L > T, a     *)
(* rebalance emits exactly one fund-movement instruction, which sends      *)
(* exactly T to the allocation and leaves the liquid balance at L - T.     *)
(***************************************************************************)
OneFixedEmpty(asset) ==
    /\ asset \in DOMAIN ASSETS
    /\ Len(StoredApps(asset)) = 1
    /\ StoredApps(asset)[1].alloc_type = "Amount"
    /\ StoredApps(asset)[1].tolerance = 0
    /\ adapters[asset][StoredApps(asset)[1].contract.address]
          = [bonded |-> 0, claimable |-> 0]
    /\ liquid[asset] > StoredApps(asset)[1].amount

C16_OneFixedAllocation ==
    \A s \in Callers :
       OneFixedEmpty("X") =>
          LET out == Outcome(update(s, "X"), Chain)
              app == StoredApps("X")[1]
          IN /\ out.committed
             /\ out.resp.messages =
                   <<BatchSendMsg(<<SendAction(app.contract.address,
                                               app.amount)>>, "X")>>
             /\ out.chain.liquid["X"] = liquid["X"] - app.amount
             /\ out.chain.adapters["X"][app.contract.address].bonded
                   = app.amount


(***************************************************************************)
(* C17. Idempotence near convergence: when a rebalance has been executed   *)
(* and its instructions applied, a second rebalance called right after it, *)
(* with no deposit, unbond, claim or allocation change in between, emits   *)
(* no transfer instruction: no send, no allowance-sourced send and no      *)
(* withdrawal from an allocation.                                          *)
(***************************************************************************)
EmitsNothing(asset) ==
    \A s \in Callers : Outcome(update(s, asset), Chain).resp.messages = <<>>

C17_RebalanceIdempotent ==
    [][ ((\E s \in Callers : Update(s, "X")) /\ resp'.answer = "Update")
           => EmitsNothing("X")' ]_vars


(***************************************************************************)
(* C18. RemoveHolder sets the holding's status to Closed and deletes       *)
(* nothing: the record, its balances and its pending amounts are kept.     *)
(* Closed is terminal: AddHolder for a closed address is refused, and no   *)
(* step makes a Closed holding Active again or removes it.                 *)
(***************************************************************************)
RemoveCloses ==
    \A s \in AdminCallers, h \in DOMAIN HOLDING :
       Permitted(s) =>
          LET out == Outcome(remove_holder(s, h), Chain) IN
          /\ out.committed
          /\ out.st.HOLDING = [HOLDING EXCEPT ![h].status = "Closed"]
          /\ out.st.HOLDERS = HOLDERS

ClosedRefusesAdd ==
    \A s \in AdminCallers, h \in DOMAIN HOLDING :
       HOLDING[h].status = "Closed" =>
          ~Outcome(add_holder(s, h), Chain).committed

ClosedStays ==
    \A h \in DOMAIN HOLDING :
       HOLDING[h].status = "Closed" =>
          /\ h \in DOMAIN HOLDING'
          /\ HOLDING'[h].status = "Closed"
          /\ Contains(HOLDERS', h)

C18_ClosedTerminal ==
    /\ [](RemoveCloses /\ ClosedRefusesAdd)
    /\ [][ClosedStays]_vars

C18_Witness ==
    /\ resp.answer = "RemoveHolder"
    /\ "h1" \in DOMAIN HOLDING
    /\ HOLDING["h1"].status = "Closed"
    /\ Available(Store, "h1", "X") = 1
    /\ add_holder("admin", "h1").resp.status = "Holding already exists"


C20_ReRegisterKeeps ==
    \A s \in {"admin", "h1"}, t \in Asset :
       LET out == Outcome(try_register_asset(s, Contract(t, "hash1")), Chain)
       IN (t \in DOMAIN ASSETS /\ out.committed) =>
             /\ out.st.ASSET_LIST = ASSET_LIST
             /\ out.st.ALLOCATIONS = ALLOCATIONS
             /\ out.st.HOLDING = HOLDING
             /\ out.st.HOLDERS = HOLDERS
             /\ out.st.CONFIG = CONFIG



(***************************************************************************)
(* The course of one rebalance.  Steps lists the allocations in the order  *)
(* the planner takes them, each with the desired amount and threshold the  *)
(* planner computes for it and the planner's accumulators before and after *)
(* it; an allocation the loop has left before reaching it is skipped, and  *)
(* the accumulators pass it unchanged.                                     *)
(***************************************************************************)
RECURSIVE Steps(_, _, _, _, _)
Steps(asset, allocations, total, treasury, acc) ==
    IF allocations = <<>> \/ acc.panic THEN <<>>
    ELSE LET adapter == Head(allocations)
             desired == desired_amount(adapter, total, acc.amount_sending_out)
             after == RebalanceLoop(asset, <<adapter>>, total, treasury, acc)
         IN <<[adapter |-> adapter,
               desired |-> desired,
               threshold |-> multiply_ratio(desired, adapter.tolerance,
                                            ONE_HUNDRED_PERCENT),
               skipped |-> acc.break,
               before |-> acc,
               after |-> after]>>
            \o Steps(asset, Tail(allocations), total, treasury, after)

Trace(asset) ==
    LET allocations == Refreshed(asset, StoredApps(asset))
        amount_total == TypeTotal(allocations, "Amount")
        portion_total == TypeTotal(allocations, "Portion")
        balance == balance_query(asset)
        holder_unbonding == SumUnbondings(HOLDERS, asset, "nobody")
        out_total == (amount_total + portion_total + balance)
                        - holder_unbonding
        total == out_total + allowance_query(CONFIG.treasury, asset)
    IN Steps(asset, SortByType(allocations), total, CONFIG.treasury,
         [balance |-> balance,
          allowance |-> allowance_query(CONFIG.treasury, asset),
          allowance_used |-> 0, balance_used |-> 0,
          amount_sending_out |-> 0,
          send_actions |-> <<>>, send_from_actions |-> <<>>,
          messages |-> <<>>, break |-> FALSE, panic |-> FALSE])

(***************************************************************************)
(* What the properties of a rebalance speak of: the investable total and   *)
(* the grand total of an asset, the desired amount, threshold and gap of   *)
(* an allocation, and what one step of the planner has sent, drawn and     *)
(* asked back.                                                             *)
(***************************************************************************)
SumAmounts(seq) == SumFn([i \in 1..Len(seq) |-> seq[i].amount])

AllPending(asset) ==
    SumFn([h \in DOMAIN HOLDING |-> Pending(Store, h, asset)])

AllAvailable(st, asset) ==
    SumFn([h \in DOMAIN st.HOLDING |-> Available(st, h, asset)])

AllocationBalances(asset) ==
    SumFn([i \in 1..Len(StoredApps(asset)) |->
              adapter_balance_query(asset,
                                    StoredApps(asset)[i].contract.address)])

InvestableTotal(asset) ==
    AllocationBalances(asset) + liquid[asset] - AllPending(asset)

GrandTotal(asset) ==
    InvestableTotal(asset) + allowance_query(CONFIG.treasury, asset)

FixedTargets(asset) ==
    SumFn([i \in 1..Len(StoredApps(asset)) |->
              IF StoredApps(asset)[i].alloc_type = "Amount"
              THEN StoredApps(asset)[i].amount ELSE 0])

Desired(asset, adapter) ==
    IF adapter.alloc_type = "Amount" THEN adapter.amount
    ELSE (adapter.amount * Max(GrandTotal(asset) - FixedTargets(asset), 0))
            \div ONE_HUNDRED_PERCENT

Threshold(asset, adapter) ==
    (Desired(asset, adapter) * adapter.tolerance) \div ONE_HUNDRED_PERCENT

Gap(asset, adapter) == Desired(asset, adapter) - adapter.balance

Surplus(asset, adapter) == adapter.balance - Desired(asset, adapter)

Added(old, new) == SubSeq(new, Len(old) + 1, Len(new))

FromLiquid(step) ==
    SumAmounts(Added(step.before.send_actions, step.after.send_actions))

FromAllowance(step) ==
    SumAmounts(Added(step.before.send_from_actions,
                     step.after.send_from_actions))

AskedBack(step) == Added(step.before.messages, step.after.messages)

LiquidLeft(asset, trace, k) ==
    liquid[asset] - SumFn([j \in 1..(k - 1) |-> FromLiquid(trace[j])])

AllowanceLeft(asset, trace, k) ==
    allowance_query(CONFIG.treasury, asset)
    - SumFn([j \in 1..(k - 1) |-> FromAllowance(trace[j])])

Rebalanced(asset) == Outcome(update("h1", asset), Chain)

(***************************************************************************)
(* C21. In a rebalance, an underfunded allocation whose gap exceeds its    *)
(* threshold is funded from the liquid balance first and, where the gap is *)
(* still unmet, from the allowance in the same call: it is sent            *)
(* min(gap, liquid left + allowance left), of which min(gap, liquid left)  *)
(* comes from the liquid balance.                                          *)
(***************************************************************************)
C21_FundingOrder ==
    LET trace == Trace("X") IN
    Rebalanced("X").committed =>
       \A k \in 1..Len(trace) :
          LET step == trace[k]
              gap == Gap("X", step.adapter)
              liquid_left == LiquidLeft("X", trace, k)
              allowance_left == AllowanceLeft("X", trace, k)
          IN gap > Threshold("X", step.adapter) =>
                /\ FromLiquid(step) = Min(gap, liquid_left)
                /\ FromLiquid(step) + FromAllowance(step)
                      = Min(gap, liquid_left + allowance_left)



(***************************************************************************)
(* C22. In a rebalance, every allocation whose current balance exceeds its *)
(* desired amount by more than its threshold gets a withdrawal instruction *)
(* for exactly current balance - desired amount, whatever happened to the  *)
(* allocations taken before it in the same call.                           *)
(***************************************************************************)
C22_SurplusWithdrawn ==
    LET trace == Trace("X") IN
    Rebalanced("X").committed =>
       \A k \in 1..Len(trace) :
          LET step == trace[k]
              surplus == Surplus("X", step.adapter)
          IN surplus > Threshold("X", step.adapter) =>
                AskedBack(step)
                   = <<UnbondMsg("X", surplus, step.adapter.contract.address)>>



(***************************************************************************)
(* C23. A rebalance is threshold-gated: for an allocation whose current    *)
(* balance differs from its desired amount by at most the threshold        *)
(* desired amount x tolerance / 100%, it emits no funding instruction and  *)
(* no withdrawal instruction, and the liquid balance and the allowance     *)
(* left for the allocations after it are not reduced.                      *)
(***************************************************************************)
Distance(asset, adapter) ==
    Max(Gap(asset, adapter), Surplus(asset, adapter))

C23_ThresholdGated ==
    LET trace == Trace("X") IN
    \A k \in 1..Len(trace) :
       LET step == trace[k] IN
       Distance("X", step.adapter) <= Threshold("X", step.adapter) =>
          /\ step.after.send_actions = step.before.send_actions
          /\ step.after.send_from_actions = step.before.send_from_actions
          /\ step.after.messages = step.before.messages
          /\ step.after.balance = step.before.balance
          /\ step.after.allowance = step.before.allowance
          /\ LiquidLeft("X", trace, k + 1) = LiquidLeft("X", trace, k)
          /\ AllowanceLeft("X", trace, k + 1) = AllowanceLeft("X", trace, k)

C23_Witness ==
    /\ resp.answer = "Update"
    /\ resp.messages = <<>>
    /\ liquid["X"] > 0
    /\ LET trace == Trace("X") IN
       \E k \in 1..Len(trace) :
          /\ ~trace[k].skipped
          /\ Gap("X", trace[k].adapter) > 0
          /\ Gap("X", trace[k].adapter) <= Threshold("X", trace[k].adapter)



(***************************************************************************)
(* C24. A rebalance evaluates the FixedAmount allocations before the       *)
(* ProportionalShare ones whatever the registry order, keeping the         *)
(* registry order inside each group; so the desired amount of every        *)
(* ProportionalShare allocation is target share x max(grand total - sum of *)
(* the targets of all FixedAmount allocations of the asset, 0) / 100%, and *)
(* is zero when the grand total does not exceed the fixed targets.         *)
(***************************************************************************)
RegistryPos(asset, adapter) ==
    CHOOSE i \in 1..Len(StoredApps(asset)) :
       StoredApps(asset)[i].contract = adapter.contract

C24_FixedFirst ==
    LET trace == Trace("X") IN
    /\ \A i, j \in 1..Len(trace) :
          i < j =>
             /\ ~(IsPortion(trace[i].adapter) /\ IsAmount(trace[j].adapter))
             /\ trace[i].adapter.alloc_type = trace[j].adapter.alloc_type
                   => RegistryPos("X", trace[i].adapter)
                         < RegistryPos("X", trace[j].adapter)
    /\ \A k \in 1..Len(trace) :
          (IsPortion(trace[k].adapter) /\ ~trace[k].skipped) =>
             /\ trace[k].desired = Desired("X", trace[k].adapter)
             /\ GrandTotal("X") <= FixedTargets("X") => trace[k].desired = 0

C24_Witness ==
    /\ resp.answer = "Update"
    /\ resp.messages # <<>>
    /\ Len(StoredApps("X")) = 2
    /\ IsPortion(StoredApps("X")[1])
    /\ IsAmount(StoredApps("X")[2])
    /\ LET trace == Trace("X") IN
       /\ Len(trace) = 2
       /\ ~trace[2].skipped
       /\ trace[2].desired > 0
       /\ trace[2].desired
             < multiply_ratio(trace[2].adapter.amount, GrandTotal("X"),
                              ONE_HUNDRED_PERCENT)



(***************************************************************************)
(* C25. What a rebalance draws from the treasury allowance is credited to  *)
(* the treasury holder: the allowance-sourced send instructions of one     *)
(* rebalance total exactly allowance_used, which is at most the allowance  *)
(* queried at the start, and the treasury's available balance grows by     *)
(* allowance_used, on top of the gain or loss adjustment.                  *)
(***************************************************************************)
RECURSIVE SendFromActions(_)
SendFromActions(messages) ==
    IF messages = <<>> THEN <<>>
    ELSE (IF Head(messages).kind = "batch_send_from"
          THEN Head(messages).actions ELSE <<>>)
         \o SendFromActions(Tail(messages))

Adjustment(asset) == InvestableTotal(asset) - AllAvailable(Store, asset)

C25_AllowanceCredited ==
    LET out == Rebalanced("X") IN
    out.committed =>
       LET allowance_used == Plan("X").allowance_used IN
       /\ SumAmounts(SendFromActions(out.resp.messages)) = allowance_used
       /\ allowance_used <= allowance_query(CONFIG.treasury, "X")
       /\ out.chain.allowance["X"] = allowance["X"] - allowance_used
       /\ Available(out.st, CONFIG.treasury, "X")
             = Available(Store, CONFIG.treasury, "X")
               + allowance_used + Adjustment("X")

C25_Witness ==
    /\ resp.answer = "Update"
    /\ SumAmounts(SendFromActions(resp.messages)) = 1
    /\ allowance["X"] = 0
    /\ Available(Store, "treasury", "X") = 2
    /\ Contains(HOLDERS, "h1")
    /\ Available(Store, "h1", "X") = 0



(***************************************************************************)
(* C26. A rebalance reconciles drift onto the treasury holder only: after  *)
(* a successful rebalance the available balances of all holders sum to the *)
(* investable total observed at the start of the call (allocation balances *)
(* + liquid balance - all pending amounts) plus the allowance drawn in the *)
(* call; a surplus has been credited to, and a deficit debited from, the   *)
(* treasury's available balance, and no other holding has changed.         *)
(***************************************************************************)
C26_DriftOntoTreasury ==
    LET out == Rebalanced("X")
        drawn == allowance["X"] - out.chain.allowance["X"]
        change == Available(out.st, CONFIG.treasury, "X")
                    - Available(Store, CONFIG.treasury, "X")
    IN out.committed =>
          /\ AllAvailable(out.st, "X") = InvestableTotal("X") + drawn
          /\ Adjustment("X") > 0 => change > drawn
          /\ Adjustment("X") < 0 => change < drawn
          /\ Adjustment("X") = 0 => change = drawn
          /\ \A h \in DOMAIN HOLDING \ {CONFIG.treasury} :
                out.st.HOLDING[h] = HOLDING[h]

C26_Witness ==
    /\ resp.answer = "Update"
    /\ resp.messages = <<UnbondMsg("X", 1, "ad1")>>
    /\ adapters["X"]["ad1"] = [bonded |-> 1, claimable |-> 1]
    /\ AllPending("X") = 0
    /\ Available(Store, "treasury", "X") = 2
    /\ AllAvailable(Store, "X") = InvestableTotal("X")



(***************************************************************************)
(* C27. A funding shortfall is not an error: when the liquid balance plus  *)
(* the allowance cannot cover the gaps of all underfunded allocations, the *)
(* rebalance still succeeds and funds what the two sources allow, which is *)
(* all of both; the allocations left short are funded by a later           *)
(* rebalance, once liquidity or allowance has arrived.                     *)
(***************************************************************************)
Needed(asset, trace) ==
    SumFn([k \in 1..Len(trace) |->
             IF Gap(asset, trace[k].adapter)
                   > Threshold(asset, trace[k].adapter)
             THEN Gap(asset, trace[k].adapter) ELSE 0])

Sources(asset) == liquid[asset] + allowance_query(CONFIG.treasury, asset)

Funded(trace) ==
    SumFn([k \in 1..Len(trace) |->
             FromLiquid(trace[k]) + FromAllowance(trace[k])])

C27_ShortfallBestEffort ==
    LET trace == Trace("X") IN
    "X" \in DOMAIN ASSETS =>
       /\ Needed("X", trace) > Sources("X") =>
             /\ ~IsErr(update("h1", "X").resp)
             /\ Funded(trace) = Sources("X")
       /\ (Needed("X", trace) > 0 /\ Sources("X") > 0) =>
             /\ ~IsErr(update("h1", "X").resp)
             /\ Funded(trace) > 0



(***************************************************************************)
(* C28. What an unbond does not settle at once is requested from the       *)
(* allocations in ascending order of their current balance: each request   *)
(* is at most the unbondable amount the allocation reports, the requests   *)
(* total min(remainder, sum of the unbondable amounts), no request is made *)
(* once the remainder is zero (none at all when the unbond was settled     *)
(* from liquidity), and the remainder not requested is reported and stays  *)
(* in the holder's pending amount.                                         *)
(***************************************************************************)
Requests(messages) ==
    SelectSeq(messages, LAMBDA m : m.kind = "unbond")

Unbondable(asset) ==
    SumFn([i \in 1..Len(StoredApps(asset)) |->
              adapter_unbondable_query(asset,
                                       StoredApps(asset)[i].contract.address)])

C28_RemainderRequested ==
    \A s \in {"h1", "admin"}, amount \in 0..MaxFunds :
       LET out == Outcome(unbond(s, "X", amount), Chain)
           u == Unbonder(s)
           remainder == amount - Payable(u, "X", amount)
           requests == Requests(out.resp.messages)
           requested == SumAmounts(requests)
           asked == { requests[i].adapter : i \in 1..Len(requests) }
       IN out.committed =>
             /\ \A i, j \in 1..Len(requests) :
                   i < j =>
                      /\ requests[i].adapter # requests[j].adapter
                      /\ adapter_balance_query("X", requests[i].adapter)
                            <= adapter_balance_query("X", requests[j].adapter)
             /\ \A i \in 1..Len(requests), k \in 1..Len(StoredApps("X")) :
                   StoredApps("X")[k].contract.address \notin asked =>
                      adapter_balance_query("X", requests[i].adapter)
                         <= adapter_balance_query(
                               "X", StoredApps("X")[k].contract.address)
             /\ \A i \in 1..Len(requests) :
                   /\ IsSubAccount("X", requests[i].adapter)
                   /\ requests[i].amount
                         <= adapter_unbondable_query("X", requests[i].adapter)
                   /\ SumAmounts(SubSeq(requests, 1, i - 1)) < remainder
             /\ requested = Min(remainder, Unbondable("X"))
             /\ remainder = 0 => requests = <<>>
             /\ out.resp.amount = remainder - requested
             /\ Pending(out.st, u, "X") = Pending(Store, u, "X") + remainder

C28_Witness ==
    /\ resp.answer = "Unbond"
    /\ resp.amount = 0
    /\ ~HasSend(resp.messages)
    /\ Requests(resp.messages)
          = <<UnbondMsg("X", 1, "ad1"), UnbondMsg("X", 1, "ad2")>>
    /\ Len(StoredApps("X")) = 2
    /\ StoredApps("X")[1].contract.address = "ad2"
    /\ adapters["X"]["ad2"].bonded = 1



(***************************************************************************)
(* C29. The pending amount of a holder for an asset moves None -> Pending  *)
(* -> Pending (reduced) -> Settled: it grows only by an unbond of that     *)
(* holder, by the amount minus what is settled at once, and shrinks only   *)
(* by a claim of that holder, by the amount the claim pays; deposits,      *)
(* rebalances, allocation changes, holder additions and removals, and the  *)
(* unbonds and claims of other holders leave it unchanged.                 *)
(***************************************************************************)
PendingGrows(h) ==
    AmountOf(HOLDING'[h].unbondings, "X") > Pending(Store, h, "X")

PendingShrinks(h) ==
    AmountOf(HOLDING'[h].unbondings, "X") < Pending(Store, h, "X")

ByOwnUnbond(h) ==
    \E s \in {"admin", "h1"}, amount \in 0..MaxAmount :
       /\ Unbonder(s) = h
       /\ Unbond(s, "X", amount)
       /\ resp'.answer = "Unbond"
       /\ AmountOf(HOLDING'[h].unbondings, "X")
             = Pending(Store, h, "X") + amount - Payable(h, "X", amount)

ByOwnClaim(h) ==
    \E s \in {"admin", "h1"} :
       /\ Unbonder(s) = h
       /\ Claim(s, "X")
       /\ resp'.answer = "Claim"
       /\ Sends(resp'.messages)
             = <<SendMsg(h, Pending(Store, h, "X")
                              - AmountOf(HOLDING'[h].unbondings, "X"), "X")>>

PendingStep ==
    \A h \in DOMAIN HOLDING :
       /\ h \in DOMAIN HOLDING'
       /\ PendingGrows(h) => ByOwnUnbond(h)
       /\ PendingShrinks(h) => ByOwnClaim(h)

C29_PendingMachine == [][PendingStep]_vars

C29_Witness ==
    /\ resp.answer = "Claim"
    /\ Sends(resp.messages) = <<SendMsg("h1", 1, "X")>>
    /\ "h1" \in DOMAIN HOLDING
    /\ HOLDING["h1"].unbondings = <<[token |-> "X", amount |-> 0]>>
    /\ Pending(Store, "treasury", "X") = 1



(***************************************************************************)
(* C30. A rebalance persists changes only to the treasury holder's         *)
(* available balance of the asset: every other holder's available balance, *)
(* every holder's pending amount, the holder list and the stored           *)
(* allocation list, the last-observed balance field of each allocation     *)
(* included, are the same after the rebalance as before it.                *)
(***************************************************************************)
C30_RebalanceFrame ==
    LET out == Rebalanced("X")
        treasury == CONFIG.treasury
    IN out.committed =>
          /\ out.st = [Store EXCEPT !.HOLDING[treasury].balances =
                                       out.st.HOLDING[treasury].balances]
          /\ \A t \in Asset \ {"X"} :
                Available(out.st, treasury, t) = Available(Store, treasury, t)
          /\ out.st.HOLDERS = HOLDERS
          /\ out.st.ALLOCATIONS = ALLOCATIONS
          /\ \A i \in 1..Len(StoredApps("X")) :
                out.st.ALLOCATIONS["X"][i].balance = StoredApps("X")[i].balance
          /\ \A h \in DOMAIN HOLDING :
                /\ Pending(out.st, h, "X") = Pending(Store, h, "X")
                /\ h # treasury =>
                      Available(out.st, h, "X") = Available(Store, h, "X")

C30_Witness ==
    /\ resp.answer = "Update"
    /\ resp.messages # <<>>
    /\ Len(StoredApps("X")) = 2
    /\ \A i \in 1..2 :
          /\ StoredApps("X")[i].balance = 0
          /\ adapter_balance_query("X", StoredApps("X")[i].contract.address) > 0
    /\ Contains(HOLDERS, "h1")
    /\ Available(Store, "h1", "X") = 1
    /\ Pending(Store, "h1", "X") = 1
    /\ Available(Store, "treasury", "X") = 1



(***************************************************************************)
(* C31. A rebalance does not invest liquidity reserved for pending         *)
(* withdrawals: the total it sends from the liquid balance to allocations  *)
(* is at most max(liquid balance - pending amounts of all holders, 0), so  *)
(* liquid funds that cover the pending amounts before the call still cover *)
(* them once its instructions have taken effect.                           *)
(***************************************************************************)
RECURSIVE SendActions(_)
SendActions(messages) ==
    IF messages = <<>> THEN <<>>
    ELSE (IF Head(messages).kind = "batch_send"
          THEN Head(messages).actions ELSE <<>>)
         \o SendActions(Tail(messages))

C31_ReservedLiquidity ==
    LET out == Rebalanced("X") IN
    out.committed =>
       /\ SumAmounts(SendActions(out.resp.messages))
             <= Max(liquid["X"] - AllPending("X"), 0)
       /\ liquid["X"] >= AllPending("X")
             => out.chain.liquid["X"] >= AllPending("X")



(***************************************************************************)
(* C32. A rebalance of a registered asset completes successfully for every *)
(* allocation list that allocate accepts: for the empty list of a freshly  *)
(* registered asset, where it emits no instruction, and for lists holding  *)
(* allocations registered without a nickname.                              *)
(***************************************************************************)
C32_RebalanceCompletes ==
    \A s \in {"admin", "h1"} :
       ("X" \in DOMAIN ASSETS /\ "X" \in DOMAIN ALLOCATIONS) =>
          /\ ~IsErr(update(s, "X").resp)
          /\ ALLOCATIONS["X"] = <<>> => update(s, "X").resp.messages = <<>>



(***************************************************************************)
(* C33. Allocations exist only for registered assets: every asset with a   *)
(* stored, non-empty allocation list is in the asset list and has stored   *)
(* metadata; allocate for an asset that was never registered is rejected   *)
(* and stores nothing.                                                     *)
(***************************************************************************)
C33_AllocationsRegistered ==
    /\ \A t \in DOMAIN ALLOCATIONS :
          ALLOCATIONS[t] # <<>> =>
             /\ Contains(ASSET_LIST, t)
             /\ t \in DOMAIN ASSETS
    /\ \A s \in {"admin", "h1"}, t \in Asset, a \in AllocInputs :
          LET out == Outcome(allocate(s, t, a), Chain) IN
          t \notin DOMAIN ASSETS =>
             /\ ~out.committed
             /\ out.st.ALLOCATIONS = ALLOCATIONS



(***************************************************************************)
(* C34. No operation emits a zero-amount fund movement: every send and     *)
(* allowance-sourced send of a rebalance, every settlement transfer of an  *)
(* unbond or a claim, and every unbond request made to an allocation by an *)
(* unbond or a rebalance carries an amount greater than zero.              *)
(***************************************************************************)
Movements(messages) ==
    Sends(messages) \o Requests(messages)
    \o SendActions(messages) \o SendFromActions(messages)

NoZeroMovement(out) ==
    out.committed =>
       \A i \in 1..Len(Movements(out.resp.messages)) :
          Movements(out.resp.messages)[i].amount > 0

C34_NoZeroMovement ==
    /\ NoZeroMovement(Rebalanced("X"))
    /\ \A s \in {"admin", "h1"} :
          /\ NoZeroMovement(Outcome(claim(s, "X"), Chain))
          /\ \A amount \in 1..MaxDeposit :
                NoZeroMovement(Outcome(unbond(s, "X", amount), Chain))


(***************************************************************************)
(* C35. Unbond and claim change only the holding they act on: a successful *)
(* unbond or claim resolved to holder H (the caller, or the treasury when  *)
(* the caller holds the permission) leaves the holdings of every other     *)
(* holder, and the available and pending amounts of H for every other      *)
(* asset, unchanged.                                                       *)
(***************************************************************************)
OnlyHolding(out, H, asset) ==
    out.committed =>
       /\ DOMAIN out.st.HOLDING = DOMAIN HOLDING
       /\ \A h \in DOMAIN HOLDING \ {H} : out.st.HOLDING[h] = HOLDING[h]
       /\ \A t \in Asset \ {asset} :
             /\ Available(out.st, H, t) = Available(Store, H, t)
             /\ Pending(out.st, H, t) = Pending(Store, H, t)

C35_HoldingFrame ==
    \A s \in {"admin", "h1"}, t \in Asset :
       /\ OnlyHolding(Outcome(claim(s, t), Chain), Unbonder(s), t)
       /\ \A amount \in 1..MaxAmount :
             OnlyHolding(Outcome(unbond(s, t, amount), Chain), Unbonder(s), t)

C35_Witness ==
    /\ resp.answer = "Unbond"
    /\ "h1" \in DOMAIN HOLDING
    /\ Pending(Store, "h1", "X") = 1
    /\ Available(Store, "h1", "Y") = 1
    /\ Pending(Store, "treasury", "X") = 1


(***************************************************************************)
(* C36. Settlement transfers are always covered when they fire.  In claim  *)
(* every claim instruction to an adapter is enqueued before the settlement *)
(* transfer to the holder, which is the last instruction; in unbond the    *)
(* settlement is at most the liquid balance.  With the instructions        *)
(* firing in the order enqueued and the adapters paying their claimable    *)
(* amount, no settlement transfer exceeds the liquid balance at the moment *)
(* it executes.                                                            *)
(***************************************************************************)
LiquidAt(messages, i, asset) ==
    Exec(Chain, SubSeq(messages, 1, i - 1)).liquid[asset]

Covered(messages, asset) ==
    \A i \in 1..Len(messages) :
       messages[i].kind = "send" =>
          /\ Exec(Chain, SubSeq(messages, 1, i - 1)).ok
          /\ messages[i].amount <= LiquidAt(messages, i, asset)

ClaimsThenSend(messages) ==
    /\ messages # <<>>
    /\ messages[Len(messages)].kind = "send"
    /\ \A i \in 1..(Len(messages) - 1) : messages[i].kind = "claim"

C36_SettlementCovered ==
    \A s \in {"admin", "h1"} :
       /\ LET r == claim(s, "X").resp IN
          ~IsErr(r) =>
             /\ ClaimsThenSend(r.messages)
             /\ Covered(r.messages, "X")
             /\ Outcome(claim(s, "X"), Chain).committed
       /\ \A amount \in 0..MaxAmount :
             LET r == unbond(s, "X", amount).resp IN
             ~IsErr(r) =>
                /\ Covered(r.messages, "X")
                /\ \A i \in 1..Len(r.messages) :
                      r.messages[i].kind = "send" =>
                         r.messages[i].amount <= liquid["X"]

C36_Witness ==
    /\ resp.answer = "Claim"
    /\ Len(resp.messages) = 2
    /\ resp.messages[1].kind = "claim"
    /\ resp.messages[2].kind = "send"
    /\ resp.messages[2].amount = 1
    /\ liquid["X"] = 0


(***************************************************************************)
(* C37. The claimable query agrees with claim: in any state where holder H *)
(* has a pending-unbonding entry for the asset, the amount the query       *)
(* returns for (asset, H) equals the amount that a claim resolved to H in  *)
(* that same state transfers to H.                                         *)
(***************************************************************************)
HasEntry(h, asset) ==
    /\ h \in DOMAIN HOLDING
    /\ TokenPos(HOLDING[h].unbondings, asset) # 0

Transferred(out, h) == SumAmounts(SelectSeq(Sends(out.resp.messages),
                                            LAMBDA a : a.recipient = h))

C37_ClaimableAgrees ==
    \A s \in {"admin", "h1", "treasury"} :
       LET H == Unbonder(s)
           out == Outcome(claim(s, "X"), Chain)
       IN
       HasEntry(H, "X") =>
          /\ out.committed
          /\ ~IsErr(claimable("X", H))
          /\ claimable("X", H).amount = Transferred(out, H)

C37_Witness ==
    /\ HasEntry("h1", "X")
    /\ Pending(Store, "h1", "X") = 1
    /\ liquid["X"] = 0
    /\ claimable("X", "h1").amount = 1


(***************************************************************************)
(* C38. In any rebalance the desired amounts of the asset's proportional   *)
(* allocations sum to at most max(grand total - sum of the fixed targets,  *)
(* 0), so what the rebalance tries to place in the allocations never       *)
(* exceeds max(grand total, sum of the fixed targets).                     *)
(***************************************************************************)
DesiredOf(trace, alloc_type) ==
    SumFn([k \in 1..Len(trace) |->
              IF trace[k].adapter.alloc_type = alloc_type
              THEN trace[k].desired ELSE 0])

C38_PortionsFit ==
    LET trace == Trace("X") IN
    ("X" \in DOMAIN ASSETS /\ Len(trace) = Len(StoredApps("X"))) =>
       /\ DesiredOf(trace, "Portion")
             <= Max(GrandTotal("X") - FixedTargets("X"), 0)
       /\ DesiredOf(trace, "Amount") = FixedTargets("X")
       /\ DesiredOf(trace, "Portion") + DesiredOf(trace, "Amount")
             <= Max(GrandTotal("X"), FixedTargets("X"))

C38_Witness ==
    LET trace == Trace("X") IN
    /\ resp.answer = "Update"
    /\ Len(trace) = 2
    /\ \A k \in 1..2 : trace[k].adapter.alloc_type = "Portion"
    /\ GrandTotal("X") = MaxFunds
    /\ DesiredOf(trace, "Portion") = 1


(***************************************************************************)
(* C39. Every pending withdrawal is eventually settled: when a holder with *)
(* a nonzero pending amount keeps claiming and the adapters return what    *)
(* they were asked for, the holder's pending amount eventually reaches     *)
(* zero, whatever unbonds, claims and rebalances are interleaved.          *)
(***************************************************************************)
HasPending(h) == h \in DOMAIN HOLDING /\ Pending(Store, h, "X") > 0

Settled(h) == h \in DOMAIN HOLDING /\ Pending(Store, h, "X") = 0

C39_EventuallySettled ==
    \A h \in {"treasury", "h1"} : HasPending(h) ~> Settled(h)

====
